---- MODULE Spec2Model ----
(***************************************************************************)
(* FabChess search kernel: the 16-bit move codec and the lock-striped      *)
(* transposition cache of src/src/search/cache.rs, principal_variation_    *)
(* search of src/src/search/alphabeta.rs, and the king's pawn shield of    *)
(* src/src/evaluation/king_evaluation.rs.                                  *)
(*                                                                         *)
(* Specifications:                                                         *)
(*   SpecMv      the move codec applied to a position and a legal move     *)
(*   SpecCache   insert and lookup calls, every combination of arguments   *)
(*   SpecBucket  longer runs of insert on the buckets                      *)
(*   SpecFull    insert and lookup on a bucket whose three slots are taken *)
(*   SpecGeometry  caches of every size and lock count, with clear, get    *)
(*               and age_entry called directly                             *)
(*   SpecSearch  a root call of principal_variation_search on a game tree, *)
(*               the orchestrator setting the stop flag at any moment      *)
(*   SpecStop    SpecSearch with the worker scheduled fairly               *)
(*   SpecCollide SpecSearch on a game whose positions share hashes         *)
(*   SpecMate    SpecSearch on games whose root is a forced mate           *)
(*   SpecDraw    SpecSearch on games whose root is a draw by rule          *)
(*   SpecSort    get_next_gm on freshly graded move lists                  *)
(*   SpecPrune   SpecSearch on games with futility and history pruning     *)
(*   SpecDeep    SpecSearch from an invocation near the maximum depth      *)
(*   SpecKing    king_eval on kings and pawns of both colours              *)
(*   SpecLocks   threads calling the cache under its stripe locks          *)
(*   SpecLocksFair  the last calls of the threads, scheduled fairly        *)
(***************************************************************************)
EXTENDS Integers, Sequences, FiniteSets, TLC

VARIABLES
    \* ---- move codec (cache.rs 335-479) ----
    game_state,     \* the position a move is encoded from and decoded against
    gm,             \* the GameMove handed to mv_to_u16
    enc,            \* the u16 produced by mv_to_u16 (0 before the call)
    dec,            \* the GameMove produced by u16_to_mv, or NoMove
    mvpc,           \* "start" | "encoded" | "decoded" | "off"
    \* ---- transposition cache (cache.rs 18-333) ----
    cache,          \* struct Cache: entries, locks, buckets_per_lock, full, cache
    root_plies,     \* the searching thread's root_plies_played
    profile,        \* which argument sets the callers draw from
    inserts,        \* number of insert calls made
    lookups,        \* number of lookup calls made
    last,           \* the last call: its arguments, the bucket before, its results
    \* ---- principal_variation_search (alphabeta.rs 30-477) ----
    game,           \* the game tree searched and the arguments of the root call
    stop,           \* su.stop: the shared AtomicBool the orchestrator sets
    su,             \* SearchUtils: search, history, cache, move_list
    stack,          \* the invocations in progress, the root first
    ret,            \* the value the invocation that returned last gave back
    spc,            \* "ready" | "running" | "done" | "off"
    obs,            \* node counts at the root call, when su.stop was set and when
                    \* search.stop was latched; whether a child's score came late
    \* ---- threads sharing the cache (cache.rs 51-115) ----
    rwlock,         \* the RwLock of each stripe: its writer and its readers
    threads         \* each thread's call in progress and its local values

mvVars == <<game_state, gm, enc, dec, mvpc>>
cacheVars == <<cache, root_plies, profile, inserts, lookups, last>>
searchVars == <<game, stop, su, stack, ret, spc, obs>>
lockVars == <<rwlock, threads>>
vars == <<game_state, gm, enc, dec, mvpc, cache, root_plies, profile, inserts, lookups, last,
          game, stop, su, stack, ret, spc, obs, rwlock, threads>>

(***************************************************************************)
(* Bounds                                                                  *)
(***************************************************************************)
\* Board squares are sampled every SquareStep squares (plus square 63).
SquareStep == 9
\* Size of the cache in MB handed to Cache::with_size.
MbSize == 1
\* Calls of insert and of lookup in a run of SpecCache.
MaxInsertsRW == 2
MaxLookupsRW == 1
\* Calls of insert and of lookup in a run of SpecBucket.
MaxInsertsFill == 3
MaxLookupsFill == 1
\* The root ply advances from 0 up to MaxRootPlies.
MaxRootPlies == 1
\* Calls of insert and of lookup in a run of SpecFull (after the three
\* inserts that fill the bucket).
MaxInsertsFull == 1
MaxLookupsFull == 1
\* Calls of insert and of lookup in a run of SpecGeometry.
MaxInsertsGeo == 1
MaxLookupsGeo == 2

(***************************************************************************)
(* Machine integers                                                        *)
(***************************************************************************)
RECURSIVE BitOr(_, _)
\* a | b on non-negative integers
BitOr(a, b) ==
    IF a = 0 THEN b
    ELSE IF b = 0 THEN a
    ELSE (IF (a % 2 = 1) \/ (b % 2 = 1) THEN 1 ELSE 0) + 2 * BitOr(a \div 2, b \div 2)

RECURSIVE BitAnd(_, _)
\* a & b on non-negative integers
BitAnd(a, b) ==
    IF a = 0 \/ b = 0 THEN 0
    ELSE (IF (a % 2 = 1) /\ (b % 2 = 1) THEN 1 ELSE 0) + 2 * BitAnd(a \div 2, b \div 2)

\* x as u16
AsU16(x) == x % 65536

\* x as i16 (two's complement wrap)
AsI16(x) == ((x + 32768) % 65536) - 32768

\* x as i8 (two's complement wrap)
AsI8(x) == ((x + 128) % 256) - 128

(***************************************************************************)
(* Positions and moves (game_state.rs is not under src/; the fields used   *)
(* by the codec are pieces[kind][color] and color_to_move)                 *)
(***************************************************************************)
PAWN == "Pawn"
KNIGHT == "Knight"
BISHOP == "Bishop"
ROOK == "Rook"
QUEEN == "Queen"
KING == "King"
PieceType == {PAWN, KNIGHT, BISHOP, ROOK, QUEEN, KING}
WHITE == 0
BLACK == 1
Colors == {WHITE, BLACK}
AllSquares == 0 .. 63
SampleSquares == {s \in AllSquares : s % SquareStep = 0} \cup {63}

NoPiece == "None"
NoMove == [from |-> 64, to |-> 64, piece_type |-> NoPiece,
           move_type |-> [tag |-> "None", promo |-> NoPiece, cap |-> NoPiece]]

\* GameMoveType values
Quiet == [tag |-> "Quiet", promo |-> NoPiece, cap |-> NoPiece]
Castle == [tag |-> "Castle", promo |-> NoPiece, cap |-> NoPiece]
EnPassant == [tag |-> "EnPassant", promo |-> NoPiece, cap |-> NoPiece]
Capture(k) == [tag |-> "Capture", promo |-> NoPiece, cap |-> k]
Promotion(p, c) == [tag |-> "Promotion", promo |-> p, cap |-> c]

GameMove(f, t, pt, ty) == [from |-> f, to |-> t, piece_type |-> pt, move_type |-> ty]

\* A position holding `own` (square -> kind) for the side to move and `enemy`
\* for the other side, as the twelve piece bitboards (sets of squares).
MkGameState(c, own, enemy) ==
    [color_to_move |-> c,
     pieces |-> [k \in PieceType |-> [col \in Colors |->
        IF col = c THEN {s \in DOMAIN own : own[s] = k}
        ELSE {s \in DOMAIN enemy : enemy[s] = k}]]]

\* The kind of the piece of colour col on square s, NoPiece if there is none.
PieceAt(gs, col, s) ==
    IF \E k \in PieceType : s \in gs.pieces[k][col]
    THEN CHOOSE k \in PieceType : s \in gs.pieces[k][col]
    ELSE NoPiece

\* What the move generator guarantees of a move m it produces for gs: the
\* moving piece stands on m.from, a Capture names the enemy piece on m.to,
\* a Promotion is a pawn move naming the enemy piece on m.to if there is one,
\* and Quiet, Castle and EnPassant moves go to an empty square.
LegalIn(m, gs) ==
    LET us == gs.color_to_move
        them == 1 - us
        target == PieceAt(gs, them, m.to)
    IN  /\ m.from \in AllSquares /\ m.to \in AllSquares /\ m.from # m.to
        /\ m.piece_type \in PieceType
        /\ PieceAt(gs, us, m.from) = m.piece_type
        /\ PieceAt(gs, us, m.to) = NoPiece
        /\ target # KING
        /\ CASE m.move_type.tag = "Quiet" -> target = NoPiece
             [] m.move_type.tag = "Castle" -> target = NoPiece /\ m.piece_type = KING
             [] m.move_type.tag = "EnPassant" -> target = NoPiece /\ m.piece_type = PAWN
             [] m.move_type.tag = "Capture" -> target # NoPiece /\ m.move_type.cap = target
             [] m.move_type.tag = "Promotion" ->
                    /\ m.piece_type = PAWN
                    /\ m.move_type.promo \in {QUEEN, ROOK, BISHOP, KNIGHT}
                    /\ m.move_type.cap = target
             [] OTHER -> FALSE

(***************************************************************************)
(* CacheEntry::mv_to_u16 (cache.rs 335-353)                                *)
(***************************************************************************)
\* The type tag of a move; 0 stands for the panic on an invalid promotion.
MoveTypeTag_quiet_zero(ty) ==
    CASE ty.tag = "Quiet" -> 0
      [] ty.tag = "Castle" -> 2
      [] ty.tag = "Promotion" ->
            (CASE ty.promo = QUEEN -> 3
               [] ty.promo = ROOK -> 4
               [] ty.promo = BISHOP -> 5
               [] ty.promo = KNIGHT -> 6
               [] OTHER -> 0)
      [] ty.tag = "Capture" -> 7
      [] ty.tag = "EnPassant" -> 8
      [] OTHER -> 0

MoveTypeTag(ty) ==
    CASE ty.tag = "Quiet" -> 1
      [] ty.tag = "Castle" -> 2
      [] ty.tag = "Promotion" ->
            (CASE ty.promo = QUEEN -> 3
               [] ty.promo = ROOK -> 4
               [] ty.promo = BISHOP -> 5
               [] ty.promo = KNIGHT -> 6
               [] OTHER -> 0)
      [] ty.tag = "Capture" -> 7
      [] ty.tag = "EnPassant" -> 8
      [] OTHER -> 0

mv_to_u16_swapped(m) ==
    AsU16(BitOr(BitOr(m.to * 1024, m.from * 16), MoveTypeTag(m.move_type)))

mv_to_u16(m) ==
    AsU16(BitOr(BitOr(m.from * 1024, m.to * 16), MoveTypeTag(m.move_type)))

(***************************************************************************)
(* CacheEntry::u16_to_mv (cache.rs 356-479)                                *)
(***************************************************************************)
\* The if-chain over the bitboards of colour col at square s; King when no
\* bitboard of pawn..queen holds the square.
PieceTypeChain(gs, col, s) ==
    IF s \in gs.pieces[PAWN][col] THEN PAWN
    ELSE IF s \in gs.pieces[KNIGHT][col] THEN KNIGHT
    ELSE IF s \in gs.pieces[BISHOP][col] THEN BISHOP
    ELSE IF s \in gs.pieces[ROOK][col] THEN ROOK
    ELSE IF s \in gs.pieces[QUEEN][col] THEN QUEEN
    ELSE KING

\* Some(captured) unless the chain fell through to King
CapturedOption(captured) == IF captured # KING THEN captured ELSE NoPiece

u16_to_mv(mv, gs) ==
    LET typ == BitAnd(mv, 15)
        from == BitAnd(mv, 64512) \div 1024
        to == BitAnd(mv, 1008) \div 16
        color_to_move == gs.color_to_move
        enemy_color == 1 - color_to_move
        piece_type == PieceTypeChain(gs, color_to_move, from)
        captured_piece_type == PieceTypeChain(gs, enemy_color, to)
    IN  IF typ = 1 THEN GameMove(from, to, piece_type, Quiet)
        ELSE IF typ = 2 THEN GameMove(from, to, piece_type, Castle)
        ELSE IF typ = 8 THEN GameMove(from, to, piece_type, EnPassant)
        ELSE IF typ = 3 THEN
            GameMove(from, to, piece_type, Promotion(QUEEN, CapturedOption(captured_piece_type)))
        ELSE IF typ = 4 THEN
            GameMove(from, to, piece_type, Promotion(ROOK, CapturedOption(captured_piece_type)))
        ELSE IF typ = 5 THEN
            GameMove(from, to, piece_type, Promotion(BISHOP, CapturedOption(captured_piece_type)))
        ELSE IF typ = 6 THEN
            GameMove(from, to, piece_type, Promotion(KNIGHT, CapturedOption(captured_piece_type)))
        ELSE GameMove(from, to, piece_type, Capture(captured_piece_type))

(***************************************************************************)
(* 64-bit hashes.  A hash is kept as its two 32-bit halves, hi and lo, so  *)
(* that every number stays small: hash = hi * 2^32 + lo.                   *)
(***************************************************************************)
Hash(h, l) == [hi |-> h, lo |-> l]

\* hash == 0u64
HashIsZero(hash) == hash.hi = 0 /\ hash.lo = 0

\* (hash >> 32) and (hash & 0xFFFFFFFF)
UpperHalf(hash) == hash.hi
LowerHalf(hash) == hash.lo

\* (hash >> 44) as usize
Shr44(hash) == hash.hi \div 4096

\* hash as usize % n, for n > 0 (2^32 mod n is (2^16 mod n)^2 mod n)
HashMod(hash, n) ==
    LET two32 == ((65536 % n) * (65536 % n)) % n
    IN  ((((hash.hi % n) * two32) % n) + (hash.lo % n)) % n

(***************************************************************************)
(* CacheEntry (cache.rs 265-333)                                           *)
(***************************************************************************)
INVALID_STATIC_EVALUATION == -32768
DEFAULT_LOCKS == 1024

\* Option<T>: None and Some(v)
None(default) == [some |-> FALSE, val |-> default]
Some(v) == [some |-> TRUE, val |-> v]

\* Option<i16>::None, Option<GameMove>::None
NoEval == None(0)
NoTTMove == None(NoMove)

\* No invocation of the search has returned a value that waits for its caller
\* node: the locals of the invocation at its return statement
NoRet == [some |-> FALSE, val |-> 0, via |-> "none", node |-> <<>>]

\* CacheEntry::invalid (cache.rs 292-305)
invalid ==
    [upper_hash |-> 0, lower_hash |-> 0, depth |-> 0, plies_played |-> 0,
     score |-> 0, alpha |-> FALSE, beta |-> FALSE, mv |-> 0,
     static_evaluation |-> INVALID_STATIC_EVALUATION, pv_node |-> FALSE]

\* CacheEntry::get_score (cache.rs 281-283), times 10: depth * 1.0 or depth * 0.7
get_score(e) == e.depth * (IF e.pv_node THEN 10 ELSE 7)

\* CacheEntry::validate_hash (cache.rs 285-287)
validate_hash_lower_only(e, hash) == e.lower_hash = LowerHalf(hash)

validate_hash(e, hash) ==
    e.upper_hash = UpperHalf(hash) /\ e.lower_hash = LowerHalf(hash)

\* CacheEntry::is_invalid (cache.rs 289-291)
is_invalid(e) == e.mv = 0

\* CacheEntry::write (cache.rs 306-332); the receiver's old value is not read
write_flags_swapped(hash, depth, plies_played, score, static_evaluation, pv_node, alpha, beta, mv) ==
    [upper_hash |-> UpperHalf(hash), lower_hash |-> LowerHalf(hash),
     depth |-> AsI8(depth), plies_played |-> plies_played, score |-> score,
     alpha |-> beta, beta |-> alpha, pv_node |-> pv_node, mv |-> mv_to_u16(mv),
     static_evaluation |-> IF static_evaluation.some THEN static_evaluation.val
                           ELSE INVALID_STATIC_EVALUATION]

write(hash, depth, plies_played, score, static_evaluation, pv_node, alpha, beta, mv) ==
    [upper_hash |-> UpperHalf(hash), lower_hash |-> LowerHalf(hash),
     depth |-> AsI8(depth), plies_played |-> plies_played, score |-> score,
     alpha |-> alpha, beta |-> beta, pv_node |-> pv_node, mv |-> mv_to_u16(mv),
     static_evaluation |-> IF static_evaluation.some THEN static_evaluation.val
                           ELSE INVALID_STATIC_EVALUATION]

(***************************************************************************)
(* CacheBucket (cache.rs 151-263): three entries, slots 1..3 of a sequence *)
(* standing for self.0[0], self.0[1], self.0[2]                            *)
(***************************************************************************)
\* CacheBucket::default (cache.rs 259-263)
DefaultBucket == <<invalid, invalid, invalid>>

\* self.0.swap(i, j)
swap(b, i, j) == [b EXCEPT ![i] = b[j], ![j] = b[i]]

\* The entry write_entry (cache.rs 168-180) stores
write_entry(p, mv, score, original_alpha, root_plies_played, static_evaluation) ==
    LET lower_bound == score >= p.beta
        upper_bound == score <= original_alpha
        pv_node == AsI16(p.beta - p.alpha) > 1
    IN  write(p.game_state.hash, p.depth_left, AsU16(root_plies_played), score,
              static_evaluation, pv_node, upper_bound, lower_bound, mv)

\* The condition of renew_entry (cache.rs 181-190) on the entry of the slot
renew_always(e, p, root_plies_played) == TRUE

renew_entry(e, p, root_plies_played) ==
    \/ e.plies_played < AsU16(root_plies_played)
    \/ get_score(e) <= p.depth_left * (IF AsI16(p.beta - p.alpha) > 1 THEN 10 ELSE 7)

\* The condition of each branch of cache.rs 192-216 on slot i
Rule1(b, i, p, root_plies_played) ==
    \/ is_invalid(b[i])
    \/ b[i].plies_played < AsU16(root_plies_played)
    \/ validate_hash(b[i], p.game_state.hash)

\* The slot with the lowest get_score, as cache.rs 217-227 finds it
MinEntry_highest(b) ==
    LET m2 == IF get_score(b[2]) > get_score(b[3]) THEN 2 ELSE 3
    IN  IF get_score(b[1]) > get_score(b[m2]) THEN 1 ELSE m2

MinEntry(b) ==
    LET m2 == IF get_score(b[2]) < get_score(b[3]) THEN 2 ELSE 3
    IN  IF get_score(b[1]) < get_score(b[m2]) THEN 1 ELSE m2

\* CacheBucket::replace_entry (cache.rs 156-233).  bucket: the bucket after
\* the call; res: the value returned; slot: the slot chosen (0: none, rule 2
\* found the new entry worse); rule: the branch taken; written: the slot
\* that holds the new entry on return (0: nothing was written).
replace_entry_noswap(b, p, mv, score, original_alpha, root_plies_played, static_evaluation) ==
    LET new == write_entry(p, mv, score, original_alpha, root_plies_played, static_evaluation)
        renew(i) == renew_entry(b[i], p, root_plies_played)
        after(i) == IF renew(i) THEN [b EXCEPT ![i] = new] ELSE b
        new_score == p.depth_left * (IF AsI16(p.beta - p.alpha) > 1 THEN 10 ELSE 7)
        min_entry == MinEntry(b)
    IN  IF Rule1(b, 1, p, root_plies_played) THEN
            [bucket |-> after(1), res |-> is_invalid(b[1]), slot |-> 1, rule |-> 1,
             written |-> IF renew(1) THEN 1 ELSE 0]
        ELSE IF Rule1(b, 2, p, root_plies_played) THEN
            [bucket |-> after(2), res |-> is_invalid(b[2]), slot |-> 2,
             rule |-> 1, written |-> IF renew(2) THEN 2 ELSE 0]
        ELSE IF Rule1(b, 3, p, root_plies_played) THEN
            [bucket |-> after(3), res |-> is_invalid(b[3]),
             slot |-> 3, rule |-> 1, written |-> IF renew(3) THEN 3 ELSE 0]
        ELSE IF new_score >= get_score(b[min_entry]) THEN
            [bucket |-> [b EXCEPT ![min_entry] = new], res |-> FALSE,
             slot |-> min_entry, rule |-> 2, written |-> min_entry]
        ELSE
            [bucket |-> b, res |-> FALSE, slot |-> 0, rule |-> 2, written |-> 0]

replace_entry(b, p, mv, score, original_alpha, root_plies_played, static_evaluation) ==
    LET new == write_entry(p, mv, score, original_alpha, root_plies_played, static_evaluation)
        renew(i) == renew_entry(b[i], p, root_plies_played)
        after(i) == IF renew(i) THEN [b EXCEPT ![i] = new] ELSE b
        new_score == p.depth_left * (IF AsI16(p.beta - p.alpha) > 1 THEN 10 ELSE 7)
        min_entry == MinEntry(b)
    IN  IF Rule1(b, 1, p, root_plies_played) THEN
            [bucket |-> after(1), res |-> is_invalid(b[1]), slot |-> 1, rule |-> 1,
             written |-> IF renew(1) THEN 1 ELSE 0]
        ELSE IF Rule1(b, 2, p, root_plies_played) THEN
            [bucket |-> swap(after(2), 1, 2), res |-> is_invalid(b[2]), slot |-> 2,
             rule |-> 1, written |-> IF renew(2) THEN 1 ELSE 0]
        ELSE IF Rule1(b, 3, p, root_plies_played) THEN
            [bucket |-> swap(swap(after(3), 1, 3), 2, 3), res |-> is_invalid(b[3]),
             slot |-> 3, rule |-> 1, written |-> IF renew(3) THEN 1 ELSE 0]
        ELSE IF new_score >= get_score(b[min_entry]) THEN
            [bucket |-> [b EXCEPT ![min_entry] = new], res |-> FALSE,
             slot |-> min_entry, rule |-> 2, written |-> min_entry]
        ELSE
            [bucket |-> b, res |-> FALSE, slot |-> 0, rule |-> 2, written |-> 0]

\* Option<CacheEntry>::None
NoEntry == None(invalid)

\* CacheBucket::probe (cache.rs 235-247)
probe_unguarded(b, hash) ==
    IF validate_hash(b[1], hash) THEN Some(b[1])
    ELSE IF validate_hash(b[2], hash) THEN Some(b[2])
    ELSE IF validate_hash(b[3], hash) THEN Some(b[3])
    ELSE NoEntry

probe(b, hash) ==
    IF HashIsZero(hash) THEN NoEntry
    ELSE IF validate_hash(b[1], hash) THEN Some(b[1])
    ELSE IF validate_hash(b[2], hash) THEN Some(b[2])
    ELSE IF validate_hash(b[3], hash) THEN Some(b[3])
    ELSE NoEntry

\* CacheBucket::age_entry (cache.rs 249-257)
bucket_age_entry(b, hash, new_age) ==
    IF validate_hash(b[1], hash) THEN [b EXCEPT ![1].plies_played = new_age]
    ELSE IF validate_hash(b[2], hash) THEN [b EXCEPT ![2].plies_played = new_age]
    ELSE IF validate_hash(b[3], hash) THEN [b EXCEPT ![3].plies_played = new_age]
    ELSE b

(***************************************************************************)
(* Cache (cache.rs 18-149)                                                 *)
(***************************************************************************)
\* The hashes the callers use.  With 1024 stripes of 16 * MbSize buckets,
\* Zero, HashA, HashB, HashC and HashE address bucket 0 of stripe 0, HashD
\* bucket 1 of stripe 1, and so does HashBig, close to the largest hash;
\* HashA and HashC share the lower half, HashB and HashC the upper half.
HashZero == Hash(0, 0)
HashA == Hash(0, 1024)
HashB == Hash(1, 0)
HashC == Hash(1, 1024)
HashD == Hash(4096, 1)
HashE == Hash(2, 0)
HashBig == Hash(2143297535, 2147483633)
AllHashes == {HashZero, HashA, HashB, HashC, HashD, HashE, HashBig}

\* upper_index and index of a hash (cache.rs 64, 69, 75, 80, 97-98)
UpperIndex(c, hash) == Shr44(hash) % c.locks
BucketIndex(c, hash) == HashMod(hash, c.buckets_per_lock)
Addr(c, hash) == <<UpperIndex(c, hash), BucketIndex(c, hash)>>

\* The buckets the hashes in use address; every other bucket of the cache
\* stays as Cache::with_size or Cache::clear left it.
Addrs(c) == IF c.buckets_per_lock = 0 THEN {} ELSE {Addr(c, h) : h \in AllHashes}

\* Cache::with_size (cache.rs 33-48)
with_size(mb_size, locks) ==
    LET buckets == (1024 * 1024 * mb_size) \div 64
        buckets_per_lock == buckets \div locks
        geo == [locks |-> locks, buckets_per_lock |-> buckets_per_lock]
    IN  [entries |-> buckets_per_lock * locks * 3,
         locks |-> locks,
         buckets_per_lock |-> buckets_per_lock,
         full |-> 0,
         cache |-> [a \in Addrs(geo) |-> DefaultBucket]]

\* Cache::get_status (cache.rs 49-54): the integral part of the f64 returned
get_status(c) ==
    IF c.entries = 0 THEN 1000 ELSE (c.full * 1000) \div c.entries

\* Cache::clear (cache.rs 55-61)
clear_keeps_full(c) ==
    [c EXCEPT !.cache = [a \in DOMAIN @ |-> DefaultBucket]]

clear(c) ==
    [c EXCEPT !.cache = [a \in DOMAIN @ |-> DefaultBucket], !.full = 0]

\* `% self.locks` and `% self.buckets_per_lock` (cache.rs 64, 69, 75, 80)
\* panic on a divisor of zero
IndexPanics(c) == c.locks = 0 \/ c.buckets_per_lock = 0

\* Cache::get (cache.rs 74-83)
get(c, hash) == c.cache[Addr(c, hash)]

\* Cache::age_entry (cache.rs 63-72)
age_entry(c, hash, new_age) ==
    [c EXCEPT !.cache[Addr(c, hash)] = bucket_age_entry(@, hash, new_age)]

\* Cache::insert (cache.rs 85-115): the cache after the call and what
\* replace_entry reported
insert_unguarded(c, p, mv, score, original_alpha, root_plies_played, static_evaluation) ==
    IF c.entries = 0 THEN
        [cache |-> c, called |-> TRUE,
         r |-> [bucket |-> DefaultBucket, res |-> FALSE, slot |-> 0, rule |-> 0, written |-> 0]]
    ELSE
        LET r == replace_entry(get(c, p.game_state.hash), p, mv, score, original_alpha,
                               root_plies_played, static_evaluation)
        IN  [cache |-> [c EXCEPT !.cache[Addr(c, p.game_state.hash)] = r.bucket,
                                 !.full = IF r.res THEN @ + 1 ELSE @],
             called |-> TRUE, r |-> r]

insert(c, p, mv, score, original_alpha, root_plies_played, static_evaluation) ==
    IF c.entries = 0 THEN [cache |-> c, called |-> FALSE]
    ELSE
        LET r == replace_entry(get(c, p.game_state.hash), p, mv, score, original_alpha,
                               root_plies_played, static_evaluation)
        IN  [cache |-> [c EXCEPT !.cache[Addr(c, p.game_state.hash)] = r.bucket,
                                 !.full = IF r.res THEN @ + 1 ELSE @],
             called |-> TRUE, r |-> r]

\* SearchInstruction
ContinueSearching == [instr |-> "ContinueSearching", score |-> 0]
StopSearching(score) == [instr |-> "StopSearching", score |-> score]

\* The condition of cache.rs 129-133
StopRule_no_depth(ce, p) ==
    /\ (AsI16(p.beta - p.alpha) <= 1 \/ p.depth_left <= 0)
    /\ \/ ~ce.alpha /\ ~ce.beta
       \/ ce.beta /\ ce.score >= p.beta
       \/ ce.alpha /\ ce.score <= p.alpha

StopRule(ce, p) ==
    /\ ce.depth >= AsI8(p.depth_left)
    /\ (AsI16(p.beta - p.alpha) <= 1 \/ p.depth_left <= 0)
    /\ \/ ~ce.alpha /\ ~ce.beta
       \/ ce.beta /\ ce.score >= p.beta
       \/ ce.alpha /\ ce.score <= p.alpha

\* Cache::lookup (cache.rs 117-148): the value returned, the out-parameters
\* static_evaluation and tt_move (None when the call does not assign them:
\* the callers pass None), the entry probe found, the cache after
lookup(c, p, root_plies_arg) ==
    IF c.entries = 0 THEN
        [ret |-> ContinueSearching, static_evaluation |-> NoEval,
         tt_move |-> NoTTMove, ce |-> NoEntry, cache |-> c]
    ELSE
        LET found == probe(get(c, p.game_state.hash), p.game_state.hash)
            ce == found.val
        IN  IF ~found.some THEN
                [ret |-> ContinueSearching, static_evaluation |-> NoEval,
                 tt_move |-> NoTTMove, ce |-> NoEntry, cache |-> c]
            ELSE IF StopRule(ce, p) THEN
                [ret |-> StopSearching(ce.score), static_evaluation |-> NoEval,
                 tt_move |-> Some(u16_to_mv(ce.mv, p.game_state)), ce |-> found,
                 cache |-> c]
            ELSE
                [ret |-> ContinueSearching,
                 static_evaluation |->
                    IF ce.static_evaluation # INVALID_STATIC_EVALUATION
                    THEN Some(ce.static_evaluation) ELSE NoEval,
                 tt_move |-> Some(u16_to_mv(ce.mv, p.game_state)),
                 ce |-> found,
                 cache |-> IF ce.plies_played # AsU16(root_plies_arg)
                           THEN age_entry(c, p.game_state.hash, AsU16(root_plies_arg))
                           ELSE c]

(***************************************************************************)
(* The callers of the cache: a search thread inserting and looking up      *)
(* positions, one call at a time, and the root ply advancing between       *)
(* searches.                                                               *)
(***************************************************************************)
\* The position with hash `hash`: white pawn h3 and king e1, black bishop g4
\* and king a8 (the board of tests::mv_to_u16_test reduced to these pieces).
TTGameState(hash) ==
    [hash |-> hash] @@
    MkGameState(WHITE, (23 :> PAWN) @@ (4 :> KING), (30 :> BISHOP) @@ (56 :> KING))

\* h3h4 and h3xg4, legal in every TTGameState
MoveH3H4 == GameMove(23, 31, PAWN, Quiet)
MoveH3G4 == GameMove(23, 30, PAWN, Capture(BISHOP))

\* The arguments the callers draw from, by profile.  "rw": few calls with
\* every combination of bound, window, depth and payload; "fill": more calls,
\* every combination of hash, depth and window, one payload; "full": calls on
\* a bucket whose three slots are taken; "geo": calls on caches of several
\* sizes, with a move of every type on the squares from = to = 0, where the
\* type tag is all there is of the encoding.
InsertHashes ==
    CASE profile = "rw" -> {HashZero, HashA}
      [] profile = "full" -> {HashA, HashE}
      [] profile = "geo" -> {HashZero, HashA, HashBig}
      [] OTHER -> {HashZero, HashA, HashB, HashC}
InsertDepths ==
    CASE profile = "full" -> {-1, 1, 2, 3}
      [] profile = "geo" -> {1}
      [] OTHER -> {-1, 1, 2}
InsertBetas == IF profile = "geo" THEN {2} ELSE {1, 2}
InsertScores == IF profile = "rw" THEN {-1, 0, 2} ELSE {0}
InsertPayloads ==
    CASE profile = "rw" ->
            {[mv |-> MoveH3H4, se |-> NoEval], [mv |-> MoveH3G4, se |-> Some(3)]}
      [] profile = "geo" ->
            {[mv |-> GameMove(0, 0, KING, ty), se |-> NoEval] :
                ty \in {Quiet, Castle, EnPassant, Capture(PAWN), Promotion(QUEEN, NoPiece),
                        Promotion(ROOK, NoPiece), Promotion(BISHOP, NoPiece),
                        Promotion(KNIGHT, NoPiece)}}
      [] OTHER -> {[mv |-> MoveH3H4, se |-> NoEval]}
\* alpha of the window at insert, and the alpha the node was entered with
InsertAlphas == {0}
InsertOriginalAlphas == {-1}
LookupHashes ==
    CASE profile = "rw" -> {HashZero, HashA, HashC}
      [] profile = "full" -> {HashA, HashE}
      [] OTHER -> InsertHashes
LookupDepths == IF profile = "rw" THEN {-1, 1} ELSE {1}
LookupWindows ==
    IF profile = "rw"
    THEN {[alpha |-> 0, beta |-> 1], [alpha |-> -2, beta |-> 3]}
    ELSE {[alpha |-> 0, beta |-> 2]}
MaxInserts ==
    CASE profile = "rw" -> MaxInsertsRW
      [] profile = "full" -> MaxInsertsFull
      [] profile = "geo" -> MaxInsertsGeo
      [] OTHER -> MaxInsertsFill
MaxLookups ==
    CASE profile = "rw" -> MaxLookupsRW
      [] profile = "full" -> MaxLookupsFull
      [] profile = "geo" -> MaxLookupsGeo
      [] OTHER -> MaxLookupsFill
\* The profiles whose callers make one call at a time
Sequential == {"rw", "fill", "full", "geo"}

NoCall == [op |-> "none"]

\* entries, locks and buckets_per_lock of a cache
Geometry(c) == <<c.entries, c.locks, c.buckets_per_lock>>

\* The bucket a hash addresses (the default bucket in a cache without buckets)
BucketOf(c, hash) == IF c.entries = 0 THEN DefaultBucket ELSE get(c, hash)

InitCacheVars(prof) ==
    /\ cache = with_size(MbSize, DEFAULT_LOCKS)
    /\ root_plies = 0
    /\ profile = prof
    /\ inserts = 0
    /\ lookups = 0
    /\ last = NoCall

\* No search is running.
InitSearchIdle ==
    /\ game = [seed |-> 0, hash_classes |-> 0, mate_classes |-> 0]
    /\ stop = FALSE
    /\ su = [off |-> TRUE]
    /\ stack = <<>>
    /\ ret = NoRet
    /\ spc = "off"
    /\ obs = [off |-> TRUE]

\* No threads share the cache.
InitLocksIdle ==
    /\ rwlock = [off |-> TRUE]
    /\ threads = [off |-> TRUE]

InitMvIdle ==
    /\ game_state = TTGameState(HashZero)
    /\ gm = NoMove
    /\ enc = 0
    /\ dec = NoMove
    /\ mvpc = "off"

\* A call of Cache::insert
Insert ==
    /\ profile \in Sequential
    /\ inserts < MaxInserts
    /\ \E hash \in InsertHashes, depth_left \in InsertDepths, beta \in InsertBetas,
          score \in InsertScores, pl \in InsertPayloads,
          alpha \in InsertAlphas, original_alpha \in InsertOriginalAlphas :
        LET p == [alpha |-> alpha, beta |-> beta, depth_left |-> depth_left,
                  game_state |-> TTGameState(hash)]
        IN  \E r \in {insert(cache, p, pl.mv, score, original_alpha, root_plies, pl.se)} :
            /\ cache' = r.cache
            /\ last' = [op |-> "insert", p |-> p, mv |-> pl.mv, score |-> score,
                        original_alpha |-> original_alpha,
                        static_evaluation |-> pl.se, root |-> root_plies,
                        before |-> BucketOf(cache, hash),
                        after |-> BucketOf(r.cache, hash),
                        full_before |-> cache.full,
                        full_after |-> r.cache.full,
                        called |-> r.called,
                        res |-> IF r.called THEN r.r.res ELSE FALSE,
                        written |-> IF r.called THEN r.r.written ELSE 0,
                        addr |-> IF cache.entries = 0 THEN <<0, 0>> ELSE Addr(cache, hash),
                        empty_before |-> \A a \in DOMAIN cache.cache :
                                            cache.cache[a] = DefaultBucket]
    /\ inserts' = inserts + 1
    /\ UNCHANGED <<root_plies, profile, lookups, mvVars, searchVars, lockVars>>

\* A call of Cache::lookup
Lookup ==
    /\ profile \in Sequential
    /\ lookups < MaxLookups
    /\ \E hash \in LookupHashes, depth_left \in LookupDepths, w \in LookupWindows :
        LET p == [alpha |-> w.alpha, beta |-> w.beta, depth_left |-> depth_left,
                  game_state |-> TTGameState(hash)]
        IN  \E r \in {lookup(cache, p, root_plies)} :
            /\ cache' = r.cache
            /\ last' = [op |-> "lookup", p |-> p, root |-> root_plies,
                        before |-> BucketOf(cache, hash),
                        after |-> BucketOf(r.cache, hash),
                        ret |-> r.ret, tt_move |-> r.tt_move, ce |-> r.ce,
                        same_elsewhere |->
                            \A a \in DOMAIN cache.cache :
                                a = Addr(cache, hash) \/ r.cache.cache[a] = cache.cache[a],
                        geometry |-> Geometry(cache) = Geometry(r.cache),
                        addr |-> IF cache.entries = 0 THEN <<0, 0>> ELSE Addr(cache, hash),
                        full_before |-> cache.full, full_after |-> r.cache.full,
                        static_evaluation |-> r.static_evaluation,
                        prev |-> last]
    /\ lookups' = lookups + 1
    /\ UNCHANGED <<root_plies, profile, inserts, mvVars, searchVars, lockVars>>

\* The game moves on: the next search starts from a later root ply.
AdvanceRoot ==
    /\ profile \in Sequential
    /\ root_plies < MaxRootPlies
    /\ root_plies' = root_plies + 1
    /\ UNCHANGED <<cache, profile, inserts, lookups, last, mvVars, searchVars, lockVars>>

NextCache == Insert \/ Lookup \/ AdvanceRoot

\* SpecCache: few calls, every combination of their arguments
InitCache == InitCacheVars("rw") /\ InitMvIdle /\ InitSearchIdle /\ InitLocksIdle

SpecCache == InitCache /\ [][NextCache]_vars

\* SpecBucket: more calls on the buckets, fewer payloads
InitBucket == InitCacheVars("fill") /\ InitMvIdle /\ InitSearchIdle /\ InitLocksIdle

SpecBucket == InitBucket /\ [][NextCache]_vars

\* SpecFull: the bucket of HashA, HashB and HashC holds an entry of each,
\* inserted at root ply 0 with any of the depths and windows
FillDepths == {1, 2}
FillBetas == {1, 2}

FillInsert(c, hash, depth_left, beta) ==
    insert(c, [alpha |-> 0, beta |-> beta, depth_left |-> depth_left,
               game_state |-> TTGameState(hash)], MoveH3H4, 0, -1, 0, NoEval).cache

InitFull ==
    /\ \E d1 \in FillDepths, d2 \in FillDepths, d3 \in FillDepths,
          b1 \in FillBetas, b2 \in FillBetas, b3 \in FillBetas :
            cache = FillInsert(FillInsert(FillInsert(with_size(MbSize, DEFAULT_LOCKS),
                                                     HashA, d1, b1), HashB, d2, b2),
                               HashC, d3, b3)
    /\ root_plies = 0 /\ profile = "full" /\ inserts = 0 /\ lookups = 0 /\ last = NoCall
    /\ InitMvIdle /\ InitSearchIdle /\ InitLocksIdle

SpecFull == InitFull /\ [][NextCache]_vars

\* SpecGeometry: caches of several sizes and numbers of stripes, some of
\* them without a bucket; insert, lookup, clear, get and age_entry are called
MbSizes == {0, MbSize}
LockCounts == {1, 3, DEFAULT_LOCKS, 32 * DEFAULT_LOCKS}
GeoHashes == {HashZero, HashA, HashBig}

InitGeometry ==
    /\ \E mb_size \in MbSizes, locks \in LockCounts : cache = with_size(mb_size, locks)
    /\ root_plies = 0 /\ profile = "geo" /\ inserts = 0 /\ lookups = 0 /\ last = NoCall
    /\ InitMvIdle /\ InitSearchIdle /\ InitLocksIdle

\* A call of Cache::clear
Clear ==
    /\ profile = "geo"
    /\ cache' = clear(cache)
    /\ last' = [op |-> "clear", geometry |-> Geometry(cache) = Geometry(clear(cache)),
                entries |-> cache.entries, full_before |-> cache.full]
    /\ UNCHANGED <<root_plies, profile, inserts, lookups, mvVars, searchVars, lockVars>>

\* A call of Cache::get
Get ==
    /\ profile = "geo"
    /\ \E hash \in GeoHashes :
        last' = IF IndexPanics(cache)
                THEN [op |-> "get", hash |-> hash, panic |-> TRUE]
                ELSE [op |-> "get", hash |-> hash, panic |-> FALSE,
                      addr |-> Addr(cache, hash), bucket |-> get(cache, hash)]
    /\ UNCHANGED <<cache, root_plies, profile, inserts, lookups, mvVars, searchVars, lockVars>>

\* A call of Cache::age_entry
AgeEntry ==
    /\ profile = "geo"
    /\ \E hash \in GeoHashes :
        IF IndexPanics(cache)
        THEN /\ last' = [op |-> "age_entry", hash |-> hash, panic |-> TRUE]
             /\ UNCHANGED cache
        ELSE /\ last' = [op |-> "age_entry", hash |-> hash, panic |-> FALSE,
                         addr |-> Addr(cache, hash)]
             /\ cache' = age_entry(cache, hash, AsU16(root_plies))
    /\ UNCHANGED <<root_plies, profile, inserts, lookups, mvVars, searchVars, lockVars>>

NextGeometry == NextCache \/ Clear \/ Get \/ AgeEntry

SpecGeometry == InitGeometry /\ [][NextGeometry]_vars

(***************************************************************************)
(* Properties of insert and lookup (SpecCache)                             *)
(***************************************************************************)
\* The entry e stores the two halves of hash
Holds(e, hash) == e.upper_hash = hash.hi /\ e.lower_hash = hash.lo

\* The first slot of bucket b that stores hash; 0 if no slot does
FirstSlotOf(b, hash) ==
    IF Holds(b[1], hash) THEN 1
    ELSE IF Holds(b[2], hash) THEN 2
    ELSE IF Holds(b[3], hash) THEN 3
    ELSE 0

\* The last call was a lookup of the position the call before it inserted
\* into a cache with entries > 0 and every slot invalid, at a depth_left not
\* above the inserted one.
LookupAfterFirstInsert ==
    /\ last.op = "lookup"
    /\ last.prev.op = "insert"
    /\ last.prev.empty_before
    /\ cache.entries > 0
    /\ last.p.game_state = last.prev.p.game_state
    /\ last.p.depth_left <= last.prev.p.depth_left

\* The Stop rule on the window of the lookup and the bound flags the inserted
\* score has against the window of the insert
StopRuleOnInserted ==
    LET ins == last.prev
        lower == ins.score >= ins.p.beta
        upper == ins.score <= ins.original_alpha
    IN  /\ (last.p.beta - last.p.alpha <= 1 \/ last.p.depth_left <= 0)
        /\ \/ ~lower /\ ~upper
           \/ lower /\ ins.score >= last.p.beta
           \/ upper /\ ins.score <= last.p.alpha

\* The lookup gave the inserted move back, and the inserted score where the
\* Stop rule fires
ReadsBackInserted ==
    /\ last.tt_move.some
    /\ last.tt_move.val = last.prev.mv
    /\ StopRuleOnInserted =>
            /\ last.ret.instr = "StopSearching"
            /\ last.ret.score = last.prev.score

\* C2 as stated: after an insert into a cache whose slots are all invalid, a
\* lookup of the same position at depth_left <= d sets tt_move to the
\* inserted move and returns StopSearching(score) whenever the Stop rule
\* fires, for any position and any depth_left d.
C2_AsStated == LookupAfterFirstInsert => ReadsBackInserted

\* C2: write-then-read, for the inserts that are stored and can be found: the
\* hash of the position is not zero, and d >= 0 or the root ply is above 0.
\* Then the lookup sets tt_move to the inserted move and returns
\* StopSearching(score) whenever the Stop rule fires.  Otherwise (hash zero,
\* or d < 0 at root ply 0) the lookup returns ContinueSearching and does not
\* assign tt_move.
C2_WriteThenRead ==
    LookupAfterFirstInsert =>
        IF /\ ~(last.p.game_state.hash.hi = 0 /\ last.p.game_state.hash.lo = 0)
           /\ (last.prev.p.depth_left >= 0 \/ last.prev.root > 0)
        THEN ReadsBackInserted
        ELSE last.ret.instr = "ContinueSearching" /\ ~last.tt_move.some

\* A capture with a static evaluation is inserted as a lower bound at depth 2
\* and read back by a zero-window lookup at depth 1, which stops.
C2_Witness ==
    /\ LookupAfterFirstInsert
    /\ last.prev.mv = MoveH3G4
    /\ last.prev.p.depth_left = 2
    /\ last.prev.score >= last.prev.p.beta
    /\ last.p.depth_left = 1
    /\ last.ret.instr = "StopSearching"
    /\ last.tt_move.val = MoveH3G4

\* C3: lookup returns StopSearching(score) only when an entry with the hash
\* of the position is found, its depth is >= the requested depth_left, the
\* window is a zero window or depth_left <= 0, and the bound is compatible
\* (no flag, or beta flag with score >= beta, or alpha flag with score <=
\* alpha); the score returned is the stored one.  In every other case it
\* returns ContinueSearching.
C3_StopOnlyWhen ==
    last.op = "lookup" =>
        LET p == last.p
            i == FirstSlotOf(last.before, p.game_state.hash)
            e == last.before[IF i = 0 THEN 1 ELSE i]
            allowed ==
                /\ cache.entries > 0
                /\ i # 0
                /\ e.depth >= p.depth_left
                /\ (p.beta - p.alpha <= 1 \/ p.depth_left <= 0)
                /\ \/ ~e.alpha /\ ~e.beta
                   \/ e.beta /\ e.score >= p.beta
                   \/ e.alpha /\ e.score <= p.alpha
        IN  IF allowed
            THEN \/ last.ret.instr = "ContinueSearching"
                 \/ last.ret.instr = "StopSearching" /\ last.ret.score = e.score
            ELSE last.ret.instr = "ContinueSearching"

\* A lookup stops on a lower-bound entry found in the second slot of its
\* bucket and returns its score.
C3_Witness ==
    /\ last.op = "lookup"
    /\ last.ret.instr = "StopSearching"
    /\ FirstSlotOf(last.before, last.p.game_state.hash) = 2
    /\ last.before[2].beta
    /\ last.ret.score = last.before[2].score

\* C4: every entry insert writes has the beta flag iff score >= beta, the
\* alpha flag iff score <= original_alpha, pv_node iff beta - alpha > 1, and
\* depth, score, hash halves, root ply and static evaluation (-32768 when
\* absent) equal to the arguments; with original_alpha < beta the two flags
\* are never both set.
C4_WrittenEntry ==
    last.op = "insert" =>
        \A i \in 1..3 :
            (\A j \in 1..3 : last.after[i] # last.before[j]) =>
                LET e == last.after[i]
                    p == last.p
                IN  /\ e.beta = (last.score >= p.beta)
                    /\ e.alpha = (last.score <= last.original_alpha)
                    /\ e.pv_node = (p.beta - p.alpha > 1)
                    /\ e.depth = p.depth_left
                    /\ e.score = last.score
                    /\ e.upper_hash = p.game_state.hash.hi
                    /\ e.lower_hash = p.game_state.hash.lo
                    /\ e.plies_played = last.root
                    /\ e.static_evaluation =
                            (IF last.static_evaluation.some
                             THEN last.static_evaluation.val ELSE -32768)
                    /\ (last.original_alpha < p.beta => ~(e.alpha /\ e.beta))

\* An insert without static evaluation writes an upper-bound PV entry into
\* the second slot's place at root ply 1, and it ends in the first slot.
C4_Witness ==
    /\ last.op = "insert"
    /\ last.root = 1
    /\ \A j \in 1..3 : last.after[1] # last.before[j]
    /\ last.after[2] = last.before[1]
    /\ ~last.before[1].pv_node
    /\ last.after[1].alpha /\ ~last.after[1].beta /\ last.after[1].pv_node
    /\ last.after[1].static_evaluation = -32768

\* C13 as stated: after every lookup that finds an entry for the hash of the
\* position, whether it returns StopSearching or ContinueSearching, the
\* entry's plies_played equals the current root ply; no other field of the
\* entry and no other entry is changed by the lookup.
C13_LookupAges ==
    (last.op = "lookup" /\ last.ce.some) =>
        LET i == FirstSlotOf(last.before, last.p.game_state.hash)
        IN  /\ last.after[i].plies_played = last.root
            /\ [last.after[i] EXCEPT !.plies_played = 0]
                    = [last.before[i] EXCEPT !.plies_played = 0]
            /\ \A k \in 1..3 : k # i => last.after[k] = last.before[k]
            /\ last.same_elsewhere

\* C14: probe returns None for the hash 0; for any other hash it returns the
\* entry of the first slot whose upper_hash and lower_hash are the two halves
\* of the hash, and None if there is no such slot.  A lookup of a position of
\* hash 0 returns ContinueSearching and assigns neither tt_move nor
\* static_evaluation.
C14_Probe ==
    last.op = "lookup" =>
        LET hash == last.p.game_state.hash
            zero == hash.hi = 0 /\ hash.lo = 0
            i == FirstSlotOf(last.before, hash)
        IN  /\ last.ce = (IF zero \/ i = 0 THEN NoEntry ELSE Some(last.before[i]))
            /\ zero => /\ last.ret.instr = "ContinueSearching"
                       /\ ~last.tt_move.some
                       /\ ~last.static_evaluation.some
                       /\ last.after = last.before

\* A position of hash 0 was inserted and its entry is in the bucket; the
\* lookup of that position finds nothing.
C14_Witness ==
    /\ last.op = "lookup"
    /\ last.p.game_state.hash = HashZero
    /\ \E k \in 1..3 : Holds(last.before[k], HashZero) /\ last.before[k].mv # 0
    /\ ~last.ce.some
    /\ last.ret.instr = "ContinueSearching"

(***************************************************************************)
(* Properties of bucket replacement (SpecBucket)                           *)
(***************************************************************************)
\* Ten times the replacement score depth * (1.0 if pv_node else 0.7)
ReplacementScore(depth, pv_node) == depth * (IF pv_node THEN 10 ELSE 7)

\* The entry e is the one the last insert had to write
IsNewEntry(e) ==
    /\ Holds(e, last.p.game_state.hash)
    /\ e.mv # 0
    /\ e.depth = last.p.depth_left
    /\ e.score = last.score
    /\ e.plies_played = last.root
    /\ e.pv_node = (last.p.beta - last.p.alpha > 1)
    /\ e.beta = (last.score >= last.p.beta)
    /\ e.alpha = (last.score <= last.original_alpha)

\* The slots of bucket b that hold a written entry for hash
SlotsFor(b, hash) == {i \in 1..3 : Holds(b[i], hash) /\ b[i].mv # 0}

\* Bucket b without slot i, in slot order
Without(b, i) ==
    IF i = 1 THEN <<b[2], b[3]>> ELSE IF i = 2 THEN <<b[1], b[3]>> ELSE <<b[1], b[2]>>

\* The two-entry sequences r and q hold the same entries
SameEntries(r, q) == r = q \/ (r[1] = q[2] /\ r[2] = q[1])

\* C9 as stated: if the bucket holds an entry for hash h, inserting a new
\* entry for h with a strictly higher replacement score updates that entry:
\* afterwards exactly one slot holds h, it holds the new entry, and the
\* entries of the other two slots are the same as before.
C9_ReplacementMonotone ==
    (/\ last.op = "insert"
     /\ Cardinality(SlotsFor(last.before, last.p.game_state.hash)) = 1) =>
        LET h == last.p.game_state.hash
            j == CHOOSE i \in 1..3 : i \in SlotsFor(last.before, h)
            old == last.before[j]
            after == SlotsFor(last.after, h)
        IN  ReplacementScore(last.p.depth_left, last.p.beta - last.p.alpha > 1)
                > ReplacementScore(old.depth, old.pv_node) =>
                /\ Cardinality(after) = 1
                /\ \A i \in after :
                    /\ IsNewEntry(last.after[i])
                    /\ SameEntries(Without(last.after, i), Without(last.before, j))

\* Some slot of bucket b is invalid, older than the root ply, or holds hash
Rule1Slots(b, hash, root) ==
    {i \in 1..3 : b[i].mv = 0 \/ b[i].plies_played < root \/ Holds(b[i], hash)}

\* C10 as stated: whenever some slot of the bucket is invalid, older than the
\* root ply or holds the hash inserted, insert writes the new entry into such
\* a slot without comparing it with the entry already there.
C10_AsStated ==
    (/\ last.op = "insert"
     /\ Rule1Slots(last.before, last.p.game_state.hash, last.root) # {}) =>
        \E i \in 1..3 : IsNewEntry(last.after[i])

\* C10: whenever some slot of the bucket is invalid, older than the root ply
\* or holds the hash inserted, insert takes the first such slot and moves it
\* to the front, the slots before it shifting back by one; it writes the new
\* entry there only if the slot's entry is older than the root ply or its
\* replacement score is not above the new entry's, and otherwise leaves the
\* slot's entry as it was.
C10_Rule1 ==
    (/\ last.op = "insert"
     /\ Rule1Slots(last.before, last.p.game_state.hash, last.root) # {}) =>
        LET slots == Rule1Slots(last.before, last.p.game_state.hash, last.root)
            i == CHOOSE k \in slots : \A m \in slots : k <= m
            old == last.before[i]
            renew ==
                \/ old.plies_played < last.root
                \/ ReplacementScore(old.depth, old.pv_node)
                     <= ReplacementScore(last.p.depth_left, last.p.beta - last.p.alpha > 1)
        IN  /\ Without(last.after, 1) = Without(last.before, i)
            /\ IF renew THEN IsNewEntry(last.after[1]) ELSE last.after[1] = old

\* An insert of a hash the first slot holds at depth 2, of the same root ply,
\* comes with depth 1: nothing is written.
C10_Witness ==
    /\ last.op = "insert"
    /\ last.before[1].mv # 0
    /\ Holds(last.before[1], last.p.game_state.hash)
    /\ last.before[1].plies_played = last.root
    /\ last.before[1].depth = 2
    /\ last.p.depth_left = 1
    /\ last.before[2].mv # 0
    /\ last.after = last.before

(***************************************************************************)
(* Properties of bucket replacement on a bucket without a free slot        *)
(* (SpecFull)                                                              *)
(***************************************************************************)
\* The first slot rule 1 selects for the last insert; 0 if it selects none
FirstRule1Slot ==
    LET slots == Rule1Slots(last.before, last.p.game_state.hash, last.root)
    IN  IF slots = {} THEN 0 ELSE CHOOSE k \in slots : \A m \in slots : k <= m

\* The replacement score of the new entry of the last insert
NewScore == ReplacementScore(last.p.depth_left, last.p.beta - last.p.alpha > 1)

\* The lowest replacement score of the bucket before the last insert
LowestScore ==
    LET sc(k) == ReplacementScore(last.before[k].depth, last.before[k].pv_node)
    IN  CHOOSE v \in {sc(k) : k \in 1..3} : \A k \in 1..3 : v <= sc(k)

\* C11 as stated: after an insert that selects a slot by rule 1, that slot's
\* entry is in slot 0 and the two others keep their order in slots 1 and 2;
\* after any insert that writes an entry, slot 0 holds the entry written.
C11_AsStated ==
    (last.op = "insert" /\ last.called) =>
        /\ FirstRule1Slot # 0 =>
                Without(last.after, 1) = Without(last.before, FirstRule1Slot)
        /\ last.written # 0 => (last.written = 1 /\ IsNewEntry(last.after[1]))

\* C11: after an insert that selects a slot by rule 1, that slot's entry (the
\* new entry if it was written, the old one if not) is in slot 0 and the two
\* others keep their order in slots 1 and 2.  After an insert that writes by
\* rule 2 the new entry is in the slot it replaced, slot 0, 1 or 2, and every
\* other entry is where it was.
C11_SlotOrder ==
    (last.op = "insert" /\ last.called) =>
        IF FirstRule1Slot # 0
        THEN /\ Without(last.after, 1) = Without(last.before, FirstRule1Slot)
             /\ last.written \in {0, 1}
             /\ IF last.written = 1 THEN IsNewEntry(last.after[1])
                ELSE last.after[1] = last.before[FirstRule1Slot]
        ELSE /\ \A k \in 1..3 : k # last.written => last.after[k] = last.before[k]
             /\ last.written # 0 => IsNewEntry(last.after[last.written])

\* No slot is invalid, old or matching, and the new entry is written into the
\* third slot, where it stays.
C11_Witness ==
    /\ last.op = "insert"
    /\ FirstRule1Slot = 0
    /\ last.written = 3
    /\ IsNewEntry(last.after[3])
    /\ last.after[1] = last.before[1]
    /\ ~Holds(last.after[1], last.p.game_state.hash)

\* C12: rule 2.  When no slot is invalid, older than the root ply or holds the
\* hash inserted, a slot with the lowest depth * (1.0 if pv_node else 0.7) is
\* overwritten by the new entry iff the new entry's value is >= that lowest
\* value, and otherwise the bucket is unchanged; the other two slots are
\* unchanged, replace_entry returns false and full is not incremented.
C12_Rule2 ==
    (last.op = "insert" /\ last.called /\ FirstRule1Slot = 0) =>
        /\ IF NewScore >= LowestScore
           THEN \E k \in 1..3 :
                    /\ ReplacementScore(last.before[k].depth, last.before[k].pv_node)
                            = LowestScore
                    /\ IsNewEntry(last.after[k])
                    /\ \A m \in 1..3 : m # k => last.after[m] = last.before[m]
           ELSE last.after = last.before
        /\ ~last.res
        /\ last.full_after = last.full_before

\* Rule 2 replaces the second slot, the only one with the lowest value, by an
\* entry of a higher value.
C12_Witness ==
    /\ last.op = "insert"
    /\ FirstRule1Slot = 0
    /\ NewScore > LowestScore
    /\ ReplacementScore(last.before[1].depth, last.before[1].pv_node) > LowestScore
    /\ ReplacementScore(last.before[3].depth, last.before[3].pv_node) > LowestScore
    /\ IsNewEntry(last.after[2])
    /\ last.after[1] = last.before[1] /\ last.after[3] = last.before[3]

(***************************************************************************)
(* Properties of caches of any size, cleared or not (SpecGeometry)         *)
(***************************************************************************)
\* Every slot of every bucket of the cache
Slots(c) == {c.cache[a][k] : a \in DOMAIN c.cache, k \in 1..3}

\* The entry e is as CacheEntry::invalid made it, its age apart
NeverWritten(e) == [e EXCEPT !.plies_played = 0] = invalid

\* C15: mv_to_u16 never produces 0, its type tag is in 1..8.  So in every
\* state of the cache a slot is invalid iff it is as the construction or
\* the last clear left it, every entry an insert writes is not invalid, the
\* entry a lookup finds is not invalid, and tt_move is decoded from a
\* non-zero encoding only.
C15_InvalidIffUnwritten ==
    /\ \A e \in Slots(cache) :
            /\ is_invalid(e) <=> NeverWritten(e)
            /\ ~is_invalid(e) => BitAnd(e.mv, 15) \in 1..8
    /\ (last.op = "insert" /\ last.written # 0) =>
            /\ mv_to_u16(last.mv) # 0
            /\ last.after[last.written].mv = mv_to_u16(last.mv)
    /\ last.op = "lookup" =>
            /\ last.ce.some => last.ce.val.mv # 0
            /\ last.tt_move.some => last.ce.some

\* A quiet move from square 0 to square 0 was inserted, and a lookup finds
\* its entry: the encoding is the type tag alone.
C15_Witness ==
    /\ last.op = "lookup"
    /\ last.ce.some
    /\ last.ce.val.mv = 1
    /\ last.tt_move.some
    /\ \E e \in Slots(cache) : is_invalid(e)

RECURSIVE SinceClear(_)
\* The call l is a clear, or a lookup that follows one with lookups between
SinceClear(l) ==
    \/ l.op = "clear"
    \/ l.op = "lookup" /\ SinceClear(l.prev)

\* C16: after clear on a cache with entries > 0 every slot of every bucket
\* is the invalid entry, full is 0 and get_status returns 0; every lookup
\* that follows returns ContinueSearching and assigns neither tt_move nor
\* static_evaluation; locks, buckets_per_lock and entries are unchanged.
C16_Clear ==
    /\ (last.op = "clear" /\ last.entries > 0) =>
            /\ \A e \in Slots(cache) : e = invalid
            /\ cache.full = 0
            /\ get_status(cache) = 0
            /\ last.geometry
            /\ cache.entries = last.entries
    /\ (last.op = "lookup" /\ SinceClear(last.prev) /\ cache.entries > 0) =>
            /\ last.ret.instr = "ContinueSearching"
            /\ ~last.tt_move.some
            /\ ~last.static_evaluation.some
            /\ last.geometry
            /\ \A e \in Slots(cache) : e = invalid
            /\ cache.full = 0

\* A cache that counted a filled slot was cleared, and a lookup followed.
C16_Witness ==
    /\ last.op = "lookup"
    /\ last.prev.op = "clear"
    /\ last.prev.full_before > 0
    /\ cache.entries > 0
    /\ last.ret.instr = "ContinueSearching"

\* C17: on a cache with zero entries (mb_size 0, or fewer buckets than
\* locks) lookup returns ContinueSearching and assigns neither tt_move nor
\* static_evaluation, insert returns before it reaches a bucket and full
\* stays 0, and get_status returns 1000.
C17_ZeroEntries ==
    cache.entries = 0 =>
        /\ get_status(cache) = 1000
        /\ cache.full = 0
        /\ DOMAIN cache.cache = {}
        /\ last.op = "lookup" =>
                /\ last.ret.instr = "ContinueSearching"
                /\ ~last.tt_move.some
                /\ ~last.static_evaluation.some
                /\ ~last.ce.some
                /\ last.full_after = last.full_before
        /\ last.op = "insert" =>
                /\ ~last.called
                /\ last.written = 0
                /\ last.full_after = 0

\* One MB over 32768 locks: no bucket; an insert was called and then a lookup.
C17_Witness ==
    /\ cache.entries = 0
    /\ cache.locks = 32 * DEFAULT_LOCKS
    /\ inserts > 0
    /\ last.op = "lookup"
    /\ last.ret.instr = "ContinueSearching"

\* The cache has the geometry of with_size, and the last call, if it got as
\* far as a bucket, addressed stripe (hash >> 44) mod L and bucket hash mod B,
\* both in range
AddressesInRange ==
    /\ \E mb_size \in MbSizes :
            cache.buckets_per_lock = ((mb_size * 1048576) \div 64) \div cache.locks
    /\ cache.entries = 3 * cache.locks * cache.buckets_per_lock
    /\ (\/ last.op \in {"get", "age_entry"} /\ ~last.panic
        \/ last.op = "insert" /\ last.called
        \/ last.op = "lookup" /\ cache.entries > 0) =>
            LET hash == IF last.op \in {"get", "age_entry"} THEN last.hash
                        ELSE last.p.game_state.hash
            IN  /\ last.addr[1] = (hash.hi \div 4096) % cache.locks
                /\ last.addr[2] = HashMod(hash, cache.buckets_per_lock)
                /\ last.addr[1] \in 0 .. (cache.locks - 1)
                /\ last.addr[2] \in 0 .. (cache.buckets_per_lock - 1)

\* C18 as stated: with_size(mb, L) makes L stripes of B = (mb * 1048576 / 64)
\* / L buckets and entries = 3 * L * B; insert, lookup, get and age_entry
\* address stripe (hash >> 44) mod L and bucket hash mod B, both in range,
\* and none of them divides by zero.
C18_Geometry ==
    /\ AddressesInRange
    /\ last.op \in {"get", "age_entry"} => ~last.panic

(***************************************************************************)
(* SpecMv: a position, a move legal in it, encode, decode                  *)
(***************************************************************************)
\* The two lowest sampled squares outside {f, t}: bystander pieces.
Bystanders(f, t) ==
    LET free == SampleSquares \ {f, t}
        o1 == CHOOSE s \in free : \A r \in free : s <= r
        o2 == CHOOSE s \in free \ {o1} : \A r \in free \ {o1} : s <= r
    IN  <<o1, o2>>

MoveTypes ==
    {Quiet, Castle, EnPassant}
        \cup {Capture(k) : k \in PieceType \ {KING}}
        \cup {Promotion(p, c) : p \in {QUEEN, ROOK, BISHOP, KNIGHT},
                                c \in {NoPiece, KNIGHT, BISHOP, ROOK, QUEEN}}

\* The kinds an enemy piece on the target square may have (None: empty).
TargetKinds == (PieceType \ {KING}) \cup {NoPiece}

\* The position with the mover of kind k on f, an enemy piece of kind tc on t
\* (none if tc is NoPiece), an own queen and an enemy knight standing by.
CodecPosition(c, f, t, k, tc) ==
    LET by == Bystanders(f, t)
        own == (f :> k) @@ (by[1] :> QUEEN)
        enemy == IF tc = NoPiece THEN (by[2] :> KNIGHT)
                 ELSE (t :> tc) @@ (by[2] :> KNIGHT)
    IN  MkGameState(c, own, enemy)

InitMv ==
    /\ \E c \in Colors, f \in SampleSquares, t \in SampleSquares,
          k \in PieceType, tc \in TargetKinds, ty \in MoveTypes :
            /\ game_state = CodecPosition(c, f, t, k, tc)
            /\ gm = GameMove(f, t, k, ty)
            /\ LegalIn(GameMove(f, t, k, ty), CodecPosition(c, f, t, k, tc))
    /\ enc = 0
    /\ dec = NoMove
    /\ mvpc = "start"
    /\ InitCacheVars("off")
    /\ InitSearchIdle
    /\ InitLocksIdle

Encode ==
    /\ mvpc = "start"
    /\ enc' = mv_to_u16(gm)
    /\ mvpc' = "encoded"
    /\ UNCHANGED <<game_state, gm, dec, cacheVars, searchVars, lockVars>>

Decode ==
    /\ mvpc = "encoded"
    /\ dec' = u16_to_mv(enc, game_state)
    /\ mvpc' = "decoded"
    /\ UNCHANGED <<game_state, gm, enc, cacheVars, searchVars, lockVars>>

NextMv == Encode \/ Decode

SpecMv == InitMv /\ [][NextMv]_vars

\* C1: decoding the encoding of a move against the position it is legal in
\* gives the move back: same from, to, piece_type and move_type.
C1_MoveRoundTrip ==
    mvpc = "decoded" =>
        /\ dec.from = gm.from
        /\ dec.to = gm.to
        /\ dec.piece_type = gm.piece_type
        /\ dec.move_type = gm.move_type

\* A black pawn promotes to a knight capturing a rook, and is decoded.
C1_Witness ==
    /\ mvpc = "decoded"
    /\ game_state.color_to_move = BLACK
    /\ gm.move_type = Promotion(KNIGHT, ROOK)
    /\ dec = gm
(***************************************************************************)
(* principal_variation_search (alphabeta.rs 19-477, 631-890)               *)
(***************************************************************************)
MATE_SCORE == 15000
MATED_IN_MAX == -14000
MAX_SEARCH_DEPTH == 100
STANDARD_SCORE == -32767
FUTILITY_MARGIN == 90
FUTILITY_DEPTH == 8
STATIC_NULL_MOVE_MARGIN == 120
STATIC_NULL_MOVE_DEPTH == 5
NULL_MOVE_PRUNING_DEPTH == 3
\* nodes between two checkups (alphabeta.rs 41)
CHECKUP_NODES == 1024

\* Bounds of the game trees searched: moves at the root, one more than the
\* depth_left of the deepest root call, and the last ply at which a position
\* can be a check or a likely stalemate (the plies that extend the search).
RootMoves == 3
MaxPly == 8
MaxCheckPly == 4
\* The node counter at the root call is 0 or NodesBefore + one of Offsets
\* (the nodes earlier iterations of the search counted).
NodesBefore == 1000

Max(a, b) == IF a >= b THEN a ELSE b

(***************************************************************************)
(* The game searched.  Positions are the paths of moves from the root; a   *)
(* move is a number 1.. (0: the null move).  What the board decides (moves,*)
(* checks, captures, evaluation) is read off a code of the path, so that   *)
(* each seed gives one game tree.                                          *)
(***************************************************************************)
RECURSIVE PathCode(_, _)
PathCode(seed, path) ==
    IF path = <<>> THEN seed
    ELSE (PathCode(seed, SubSeq(path, 1, Len(path) - 1)) * 7 + path[Len(path)] * 5 + 3) % 97

Code(pos) == PathCode(game.seed, pos)

\* game_state.hash: one hash per path where game.hash_classes is 0;
\* otherwise the Zobrist hash takes game.hash_classes values, and positions
\* of equal code collide
HashOf(pos) ==
    IF game.hash_classes = 0 THEN pos ELSE <<Code(pos) % game.hash_classes>>

\* eval_game_state(game_state).final_eval, from White's side
EvalValues == <<-400, -130, 0, 130, 400>>
eval_game_state(pos) == EvalValues[(Code(pos) % 5) + 1]

\* calculate_phase(game_state) > 0.
PhasePositive(pos) == Code(pos) % 6 # 1

\* The checkmates of the game beyond those the code of the path gives: where
\* game.mate_classes is k > 0, each position off the root with a code that k
\* divides, up to the last ply of checks
IsMate(pos) ==
    /\ game.mate_classes # 0
    /\ pos # <<>> /\ Len(pos) <= MaxCheckPly
    /\ Code(pos) % game.mate_classes = 0

\* in_check(game_state) (alphabeta.rs 653-701)
in_check(pos) ==
    Len(pos) <= MaxCheckPly /\ (Code(pos) % 11 = 4 \/ IsMate(pos))

\* is_likelystalemate(game_state) (alphabeta.rs 558-629)
is_likelystalemate(pos) == Len(pos) <= MaxCheckPly /\ Code(pos) % 13 = 6

\* The men on the board besides the kings, <<White's, Black's>> of each kind.
\* Of the codes 19 n + 5 one in four has both sides' pawns; the others have
\* bare kings, one bishop, or a knight against a bishop.  Every other code
\* has a pawn, a rook, or two knights on one side.
Men(p, n, b, r, q) == [pawns |-> p, knights |-> n, bishops |-> b, rooks |-> r, queens |-> q]
Material(pos) ==
    LET c == Code(pos)
        no == <<0, 0>>
    IN  IF c % 19 = 5 THEN
            CASE c % 4 = 0 -> Men(no, no, no, no, no)
              [] c % 4 = 1 -> Men(<<1, 1>>, no, no, no, no)
              [] c % 4 = 2 -> Men(no, no, <<1, 0>>, no, no)
              [] OTHER     -> Men(no, <<1, 0>>, <<0, 1>>, no, no)
        ELSE
            CASE c % 3 = 0 -> Men(<<1, 0>>, no, no, no, <<0, 1>>)
              [] c % 3 = 1 -> Men(no, <<2, 0>>, no, no, no)
              [] OTHER     -> Men(no, <<0, 1>>, no, <<0, 1>>, no)

\* game_state.half_moves
half_moves(pos) ==
    LET c == Code(pos)
    IN  IF c % 19 = 5 /\ c % 4 = 1 THEN 100
        ELSE IF c % 4 = 3 THEN 99
        ELSE c % 4

\* alphabeta.rs 851-859: no pawn, rook or queen, and at most one minor piece
\* a side
InsufficientMaterial_no_minor(m) ==
    /\ m.pawns = <<0, 0>> /\ m.rooks = <<0, 0>> /\ m.queens = <<0, 0>>
    /\ m.knights[1] + m.bishops[1] <= 0
    /\ m.knights[2] + m.bishops[2] <= 0

InsufficientMaterial(m) ==
    /\ m.pawns = <<0, 0>> /\ m.rooks = <<0, 0>> /\ m.queens = <<0, 0>>
    /\ m.knights[1] + m.bishops[1] <= 1
    /\ m.knights[2] + m.bishops[2] <= 1

\* The first two conditions of check_for_draw: material and half_moves
DrawnByRule(pos) == InsufficientMaterial(Material(pos)) \/ half_moves(pos) >= 100

\* game_state.half_moves == 0
HalfMovesZero(pos) == half_moves(pos) = 0

\* movegen::generate_moves: the moves of a position, in generation order
generate_moves(pos) ==
    IF Len(pos) = 0 THEN [i \in 1..RootMoves |-> i]
    ELSE IF Code(pos) % 9 = 7 \/ IsMate(pos) THEN <<>>
    ELSE IF Code(pos) % 3 = 0 THEN <<1, 2>>
    ELSE <<1>>

\* is_capture(mv), the Promotion test on mv.move_type and the EnPassant test
is_capture(pos, mv) == (Code(pos) + mv) % 4 = 0
is_promotion(pos, mv) == (Code(pos) + mv) % 17 = 1
is_en_passant(pos, mv) == is_capture(pos, mv) /\ (Code(pos) + mv) % 8 = 0

\* see(game_state, mv, true, see_buffer)
see(pos, mv) == (((Code(pos) + mv) % 3) - 1) * 100

\* make_move and make_nullmove
make_move(pos, mv) == Append(pos, mv)
make_nullmove(pos) == Append(pos, 0)

\* q_search(alpha, beta, game_state, color, 0, current_depth, su): the
\* stand-pat score of the position; it counts no node of nodes_searched
q_search(alpha, beta, pos, color) == eval_game_state(pos) * color

(***************************************************************************)
(* SearchUtils.  Rows and columns of the tables are numbered from 1: row   *)
(* d + 1 is the code's index d.  0 is None in a pv row.                    *)
(***************************************************************************)
Rows == 1 .. (MaxPly + MaxCheckPly + 1)
EmptyRow == [i \in Rows |-> 0]
\* The number of moves at the front of the row
RowLen(row) == Cardinality({i \in DOMAIN row : \A j \in 1..i : row[j] # 0})
\* The rows of the tables a search that starts at current_depth ply reaches
RowsFrom(ply) == {ply + d : d \in Rows}

RECURSIVE ClearFrom(_, _)
\* the loop of clear_pv from column i
ClearFrom(row, i) ==
    IF i \in Rows /\ row[i] # 0 THEN ClearFrom([row EXCEPT ![i] = 0], i + 1) ELSE row

\* clear_pv (alphabeta.rs 631-637)
clear_pv(at_depth, search) ==
    [search EXCEPT !.pv_table[at_depth + 1] = ClearFrom(@, 1)]

RECURSIVE CopyFrom(_, _, _)
\* the first loop of concatenate_pv from index; the index it stops at is the
\* first None of the row below
CopyFrom(row, below, index) ==
    IF index \in Rows /\ index + 1 \in Rows /\ below[index] # 0
    THEN CopyFrom([row EXCEPT ![index + 1] = below[index]], below, index + 1)
    ELSE [row |-> row, index |-> index]

\* concatenate_pv without its second loop (alphabeta.rs 646-649)
concatenate_pv_no_tail(at_depth, search) ==
    LET c == CopyFrom(search.pv_table[at_depth + 1], search.pv_table[at_depth + 2], 1)
    IN  [search EXCEPT !.pv_table[at_depth + 1] = c.row]

\* concatenate_pv (alphabeta.rs 640-650)
concatenate_pv(at_depth, search) ==
    LET c == CopyFrom(search.pv_table[at_depth + 1], search.pv_table[at_depth + 2], 1)
    IN  [search EXCEPT !.pv_table[at_depth + 1] = ClearFrom(c.row, c.index + 1)]

\* checkup (alphabeta.rs 704-714); over: what tc.time_over answers
checkup_never(search, stop_flag, over) == search

checkup(search, stop_flag, over) ==
    IF over \/ stop_flag THEN [search EXCEPT !.stop = TRUE] ELSE search

\* leaf_score (alphabeta.rs 837-846)
leaf_score(game_status, color, current_depth) ==
    IF game_status = "Draw" THEN 0
    ELSE IF game_status = "WhiteWin" THEN (MATE_SCORE - current_depth) * color
    ELSE (MATE_SCORE - current_depth) * (-color)

\* History::get_occurences: the times the hash was pushed since the last
\* push with the reset flag
RECURSIVE Occurences(_, _, _)
Occurences(history, hash, i) ==
    IF i = 0 THEN 0
    ELSE (IF history[i].hash = hash THEN 1 ELSE 0)
         + (IF history[i].reset THEN 0 ELSE Occurences(history, hash, i - 1))

\* check_for_draw (alphabeta.rs 850-872)
check_for_draw(pos, history) ==
    DrawnByRule(pos) \/ Occurences(history, HashOf(pos), Len(history)) >= 1

\* check_end_condition (alphabeta.rs 874-890); White moves at even plies
check_end_condition_swapped(pos, has_legal_moves, incheck) ==
    IF incheck /\ ~has_legal_moves
    THEN (IF Len(pos) % 2 = 0 THEN "WhiteWin" ELSE "BlackWin")
    ELSE IF ~incheck /\ ~has_legal_moves THEN "Draw"
    ELSE "Ingame"

check_end_condition(pos, has_legal_moves, incheck) ==
    IF incheck /\ ~has_legal_moves
    THEN (IF Len(pos) % 2 = 0 THEN "BlackWin" ELSE "WhiteWin")
    ELSE IF ~incheck /\ ~has_legal_moves THEN "Draw"
    ELSE "Ingame"

\* su.history.push and su.history.pop
history_push(s, pos) ==
    [s EXCEPT !.history = Append(@, [hash |-> HashOf(pos), reset |-> HalfMovesZero(pos)])]
history_pop(s) == [s EXCEPT !.history = SubSeq(@, 1, Len(@) - 1)]

(***************************************************************************)
(* The move list of a ply (alphabeta.rs 491-556, 717-748).  A grade is the *)
(* number base + num / (1000 * den), den > 0 and num >= 0: the history     *)
(* grade of a quiet move is hh_score / bf_score / 1000.                    *)
(***************************************************************************)
MoveIds == 1 .. Max(RootMoves, 2)
SideToMove(pos) == Len(pos) % 2

Grade(b, n, d) == [base |-> b, num |-> n, den |-> d]
GradeGreater(a, b) ==
    LET ia == a.base + (a.num \div (1000 * a.den))
        ib == b.base + (b.num \div (1000 * b.den))
        ra == a.num % (1000 * a.den)
        rb == b.num % (1000 * b.den)
    IN  ia > ib \/ (ia = ib /\ ra * b.den > rb * a.den)
GradePlus(a, k) == Grade(a.base + k, a.num, a.den)

\* find_move (alphabeta.rs 751-767) for contains = false: the index of mv in
\* the list, the length of the list plus one if it is not there
find_move(mv, list) ==
    IF \E i \in 1..Len(list) : list[i] = mv
    THEN CHOOSE i \in 1..Len(list) : list[i] = mv /\ \A j \in 1..(i - 1) : list[j] # mv
    ELSE Len(list) + 1

\* The grade the loop of alphabeta.rs 508-533 gives move mv of pos
BaseGrade(pos, mv, search) ==
    IF is_capture(pos, mv) THEN
        IF is_en_passant(pos, mv) THEN Grade(9999, 0, 1)
        ELSE IF see(pos, mv) >= 0 THEN Grade(see(pos, mv) + 10000, 0, 1)
        ELSE Grade(see(pos, mv), 0, 1)
    ELSE Grade(0, search.hh_score[SideToMove(pos)][mv],
               search.bf_score[SideToMove(pos)][mv])

\* The killer bonus of alphabeta.rs 537-554 for killer k on the graded list
KillerBonus(graded, list, k) ==
    IF k # 0 /\ find_move(k, list) <= Len(list)
    THEN [graded EXCEPT ![find_move(k, list)].score = GradePlus(@, 5000)]
    ELSE graded

\* make_and_evaluate_moves (alphabeta.rs 491-556)
make_and_evaluate_moves(pos, s, current_depth) ==
    LET list == generate_moves(pos)
        graded == [i \in 1..Len(list) |->
                      [mv_index |-> i, score |-> BaseGrade(pos, list[i], s.search)]]
        killers == s.search.killer_moves[current_depth + 1]
        graded1 == KillerBonus(graded, list, killers[1])
        graded2 == KillerBonus(graded1, list, killers[2])
    IN  [s EXCEPT !.move_list[current_depth + 1] =
            [counter |-> Len(list), move_list |-> list, graded_moves |-> graded2]]

RECURSIVE BestFrom(_, _, _, _)
\* the loop of get_next_gm: the index of the highest grade in i..max_moves,
\* the first one on a tie, starting from index
BestFrom(graded, index, i, max_moves) ==
    IF i > max_moves THEN index
    ELSE BestFrom(graded,
                  IF GradeGreater(graded[i].score, graded[index].score) THEN i ELSE index,
                  i + 1, max_moves)

\* get_next_gm without the copy into the slot of the move returned
get_next_gm_nocopy(ml, mv_index) ==
    LET index == BestFrom(ml.graded_moves, mv_index, mv_index + 1, ml.counter)
    IN  [result |-> ml.graded_moves[index].mv_index,
         graded_moves |-> ml.graded_moves]

\* get_next_gm (alphabeta.rs 717-748) with mv_index counted from 1: the
\* index into move_list it returns and the graded list it leaves
get_next_gm(ml, mv_index) ==
    LET index == BestFrom(ml.graded_moves, mv_index, mv_index + 1, ml.counter)
    IN  [result |-> ml.graded_moves[index].mv_index,
         graded_moves |-> [ml.graded_moves EXCEPT ![index] = ml.graded_moves[mv_index]]]

(***************************************************************************)
(* The cache as alphabeta.rs uses it (91-125, 770-834): one entry per hash *)
(***************************************************************************)
TTHas(tt, hash) == \E e \in tt : e.hash = hash
TTGet(tt, hash) == CHOOSE e \in tt : e.hash = hash

\* make_cache (alphabeta.rs 770-834); the grades 0.7 and 1.0 times ten
make_cache(tt, pv_row, score, pos, original_alpha, beta, depth_left, root_plies_played, static_evaluation) ==
    LET beta_node == score >= beta
        alpha_node == score < original_alpha
        new_entry_val == depth_left * (IF beta_node \/ alpha_node THEN 7 ELSE 10)
        new_entry == [hash |-> HashOf(pos), depth |-> AsI8(depth_left),
                      plies_played |-> root_plies_played + Len(pos), score |-> score,
                      alpha |-> alpha_node, beta |-> beta_node, mv |-> pv_row[1],
                      static_evaluation |-> static_evaluation]
    IN  IF ~TTHas(tt, HashOf(pos)) THEN tt \cup {new_entry}
        ELSE
            LET old_entry == TTGet(tt, HashOf(pos))
                old_entry_val ==
                    IF old_entry.plies_played < root_plies_played THEN -10
                    ELSE old_entry.depth * (IF old_entry.beta \/ old_entry.alpha THEN 7 ELSE 10)
            IN  IF old_entry_val <= new_entry_val
                THEN (tt \ {old_entry}) \cup {new_entry}
                ELSE tt

(***************************************************************************)
(* An invocation of principal_variation_search: its arguments, its locals  *)
(* and the call it waits for (pc).                                         *)
(***************************************************************************)
NewFrame(alpha, beta, depth_left, pos, color, current_depth) ==
    [pc |-> "entry", alpha |-> alpha, beta |-> beta, depth_left |-> depth_left,
     pos |-> pos, color |-> color, current_depth |-> current_depth,
     is_pv_node |-> FALSE, incheck |-> FALSE, is_likelystalemate |-> FALSE,
     has_pvmove |-> FALSE, pv_table_move |-> 0, has_ttmove |-> FALSE, tt_move |-> 0,
     static_evaluation |-> NoEval, has_generated_moves |-> FALSE,
     futil_pruning |-> FALSE, futil_margin |-> 0, hash_and_pv_move_counter |-> 0,
     current_max_score |-> STANDARD_SCORE, index |-> 0, moves_tried |-> 0,
     moves_from_movelist_tried |-> 0, quiets |-> <<>>,
     mv |-> 0, isc |-> FALSE, reduction |-> 0,
     args |-> [alpha |-> alpha, beta |-> beta, depth_left |-> depth_left],
     entered |-> <<>>, tried |-> <<>>]

\* The record of one pass of the move loop (alphabeta.rs 247-384): the move
\* taken, where it was taken from ("pv", "tt" or "list"), what became of it
\* ("repeated", "futile", "history" or "searched"), the locals at that moment
\* and, for a searched move, the arguments of its searches, their scores and
\* the length of the row of the PV table after the move
Taken(f, mv, from, fate) ==
    [mv |-> mv, from |-> from, fate |-> fate, index |-> f.index,
     alpha |-> f.alpha, beta |-> f.beta, depth_left |-> f.depth_left,
     current_max_score |-> f.current_max_score, reduction |-> f.reduction,
     call1 |-> <<>>, first |-> NoEval, call2 |-> <<>>, score |-> NoEval, line |-> 0]

\* The pass is appended to the record of the invocation
Take(f, mv, from, fate) == [f EXCEPT !.tried = Append(@, Taken(f, mv, from, fate))]

\* The arguments of a search of the move taken last, and a score of it
Called1(f, child) == [f EXCEPT !.tried[Len(f.tried)].call1 = child.args]
Called2(f, child) == [f EXCEPT !.tried[Len(f.tried)].call2 = child.args]
FirstScore(f, r) == [f EXCEPT !.tried[Len(f.tried)].first = Some(r)]
LastScore(f, r, row) ==
    [f EXCEPT !.tried[Len(f.tried)].score = Some(r),
              !.tried[Len(f.tried)].line = RowLen(row)]

\* The invocation returns val from the return statement `via`
Return(rest, f, s, val, via) ==
    [su |-> s, stack |-> rest,
     ret |-> [some |-> TRUE, val |-> val, via |-> via, node |-> f]]

\* The invocation f calls principal_variation_search and waits at f.pc
CallChild(rest, f, s, child) ==
    [su |-> s, stack |-> rest \o <<f, child>>, ret |-> NoRet]

\* alphabeta.rs 450-476: after the move loop
Finish(rest, f, s) ==
    LET s1 == history_pop(s)
        game_status == check_end_condition(f.pos, f.moves_tried > 0, f.incheck)
        pv_row == s1.search.pv_table[f.current_depth + 1]
    IN  IF game_status # "Ingame" THEN
            Return(rest, f, [s1 EXCEPT !.search = clear_pv(f.current_depth, @)],
                   leaf_score(game_status, f.color, f.current_depth), "no_moves")
        ELSE IF s1.search.stop THEN Return(rest, f, s1, f.current_max_score, "end")
        ELSE IF pv_row[1] = 0 THEN Return(rest, f, s1, f.current_max_score, "panic")
        ELSE Return(rest, f,
                    [s1 EXCEPT !.cache =
                        make_cache(@, pv_row, f.current_max_score, f.pos, f.alpha, f.beta,
                                   f.depth_left, s1.root_pliesplayed, f.static_evaluation)],
                    f.current_max_score, "end")

\* floor(sqrt(a) + sqrt(b)) for a, b >= 0
SqrtSum(a, b) ==
    LET Reaches(n) == \/ n * n - a - b <= 0
                      \/ (n * n - a - b) * (n * n - a - b) <= 4 * a * b
    IN  CHOOSE n \in 0 .. (a + b + 1) : Reaches(n) /\ ~Reaches(n + 1)

\* The reduction of alphabeta.rs 324-337, without the clamp of 338-340
Reduction_unclamped(f, next_state) ==
    IF /\ f.depth_left > 2 /\ ~f.has_pvmove /\ ~f.incheck /\ ~f.isc
       /\ f.index >= 2 /\ ~is_promotion(f.pos, f.mv) /\ ~in_check(next_state)
    THEN
        LET r0 == SqrtSum(f.depth_left - 1, f.index - 1)
        IN  IF f.is_pv_node THEN (r0 * 66) \div 100 ELSE r0
    ELSE 0

\* alphabeta.rs 324-341: the late move reduction of the move at f.index
Reduction(f, next_state) ==
    IF /\ f.depth_left > 2 /\ ~f.has_pvmove /\ ~f.incheck /\ ~f.isc
       /\ f.index >= 2 /\ ~is_promotion(f.pos, f.mv) /\ ~in_check(next_state)
    THEN
        LET r0 == SqrtSum(f.depth_left - 1, f.index - 1)
            r1 == IF f.is_pv_node THEN (r0 * 66) \div 100 ELSE r0
        IN  IF r1 > f.depth_left - 2 THEN f.depth_left - 2 ELSE r1
    ELSE 0

\* Every move is searched with the full window first
FullWindowFirst_always(f) == TRUE

\* The move of alphabeta.rs 342-384 is searched with the full window first
FullWindowFirst(f) == f.depth_left <= 2 \/ ~f.has_pvmove \/ f.index = 0

\* The test of alphabeta.rs 302-306 without that of current_max_score
Futile_unguarded(f, mv, next_state) ==
    /\ f.futil_pruning /\ ~f.isc /\ ~is_promotion(f.pos, mv)
    /\ ~in_check(next_state)

\* alphabeta.rs 302-306: futility pruning applies to the move mv
Futile(f, mv, next_state) ==
    /\ f.futil_pruning /\ ~f.isc /\ ~is_promotion(f.pos, mv)
    /\ f.current_max_score > MATED_IN_MAX
    /\ ~in_check(next_state)

RECURSIVE MoveLoop(_, _, _)
\* alphabeta.rs 239-351, 364-372: the loop, from its condition to the
\* first search of the next move; Finish when the loop ends
MoveLoop(rest, f, s) ==
    LET ml == s.move_list[f.current_depth + 1]
    IN  IF ~(f.moves_tried < ml.counter + f.hash_and_pv_move_counter
             \/ ~f.has_generated_moves)
        THEN Finish(rest, f, s)
        ELSE IF f.moves_tried = f.hash_and_pv_move_counter /\ ~f.has_generated_moves
        THEN MoveLoop(rest, [f EXCEPT !.has_generated_moves = TRUE],
                      make_and_evaluate_moves(f.pos, s, f.current_depth))
        ELSE
            LET hinted == f.moves_tried < f.hash_and_pv_move_counter
                next == get_next_gm(ml, f.moves_from_movelist_tried + 1)
                mv == IF hinted
                      THEN (IF f.moves_tried = 0 /\ f.has_pvmove
                            THEN f.pv_table_move ELSE f.tt_move)
                      ELSE ml.move_list[next.result]
                s1 == IF hinted THEN s
                      ELSE [s EXCEPT !.move_list[f.current_depth + 1].graded_moves =
                                            next.graded_moves]
                repeated == /\ ~hinted
                            /\ \/ f.has_pvmove /\ mv = f.pv_table_move
                               \/ f.has_ttmove /\ mv = f.tt_move
                from == IF ~hinted THEN "list"
                        ELSE IF f.moves_tried = 0 /\ f.has_pvmove THEN "pv" ELSE "tt"
                f1 == [f EXCEPT !.moves_from_movelist_tried = IF hinted THEN @ ELSE @ + 1,
                                !.moves_tried = @ + 1,
                                !.mv = mv,
                                !.isc = is_capture(f.pos, mv)]
                isp == is_promotion(f.pos, mv)
                next_state == make_move(f.pos, mv)
                futile == Futile(f1, mv, next_state)
                f2 == IF futile /\ f1.futil_margin > f1.alpha
                      THEN [f1 EXCEPT !.futil_pruning = FALSE] ELSE f1
                bad_history ==
                    /\ f2.depth_left <= 2 /\ ~f2.isc /\ ~isp /\ ~f2.incheck
                    /\ f2.current_max_score > MATED_IN_MAX
                    /\ s1.search.history_score[SideToMove(f.pos)][mv] < 0
                f3 == Take([f2 EXCEPT !.reduction = Reduction(f2, next_state),
                                      !.pc = "first"], mv, from, "searched")
                child == IF FullWindowFirst(f3)
                         THEN NewFrame(-f3.beta, -f3.alpha, f3.depth_left - 1 - f3.reduction,
                                       next_state, -f3.color, f3.current_depth + 1)
                         ELSE NewFrame(AsI16(-f3.alpha - 1), -f3.alpha, f3.depth_left - 1,
                                       next_state, -f3.color, f3.current_depth + 1)
            IN  IF repeated THEN MoveLoop(rest, Take(f1, mv, from, "repeated"), s1)
                ELSE IF futile /\ f1.futil_margin <= f1.alpha
                THEN MoveLoop(rest, Take(f1, mv, from, "futile"), s1)
                ELSE IF bad_history THEN MoveLoop(rest, Take(f2, mv, from, "history"), s1)
                ELSE CallChild(rest, Called1(f3, child), s1, child)

RECURSIVE DecrementQuiets(_, _, _, _)
\* decrement_history_quiets (alphabeta.rs 478-489) on the first n quiets tried
DecrementQuiets(history_score, quiets, n, amount) ==
    IF n = 0 THEN history_score
    ELSE [DecrementQuiets(history_score, quiets, n - 1, amount)
            EXCEPT ![quiets[n]] = @ - amount]

\* The replacement without the test for a move that is a killer already
ReplaceKillers_untested(killers, mv) ==
    <<mv, IF killers[1] # 0 THEN killers[1] ELSE killers[2]>>

\* alphabeta.rs 424-437: the killers of the ply after a cutoff by quiet mv
ReplaceKillers(killers, mv) ==
    IF killers[1] # 0 /\ killers[1] = mv THEN killers
    ELSE IF killers[2] # 0 /\ killers[2] = mv THEN killers
    ELSE <<mv, IF killers[1] # 0 THEN killers[1] ELSE killers[2]>>

\* The condition of alphabeta.rs 386: the move becomes the best move
RaisesBest_unguarded(f, s, following_score) ==
    following_score > f.current_max_score

RaisesBest(f, s, following_score) ==
    following_score > f.current_max_score /\ ~s.search.stop

\* alphabeta.rs 386-448: the score of the move f.mv is known
AfterSearch(rest, f, s, following_score) ==
    LET d == f.current_depth + 1
        side == SideToMove(f.pos)
        sq == f.depth_left * f.depth_left
        raise == RaisesBest(f, s, following_score)
        search1 == IF raise
                   THEN concatenate_pv(f.current_depth,
                                       [s.search EXCEPT !.pv_table[d][1] = f.mv])
                   ELSE s.search
        f1 == [LastScore(f, following_score, search1.pv_table[d])
                  EXCEPT !.current_max_score = IF raise THEN following_score ELSE @,
                         !.alpha = IF following_score > @ THEN following_score ELSE @]
        cut_search ==
            IF f.isc THEN search1
            ELSE [search1 EXCEPT
                    !.hh_score[side][f.mv] = @ + sq,
                    !.history_score[side] =
                        DecrementQuiets([@ EXCEPT ![f.mv] = @ + sq], f.quiets,
                                        Len(f.quiets), sq),
                    !.killer_moves[d] = ReplaceKillers(@, f.mv)]
        quiet_search == IF f.isc THEN search1
                        ELSE [search1 EXCEPT !.bf_score[side][f.mv] = @ + sq]
        f2 == [f1 EXCEPT !.quiets = IF f.isc THEN @ ELSE Append(@, f.mv),
                         !.index = @ + 1]
    IN  IF f1.alpha >= f1.beta
        THEN Finish(rest, f1, [s EXCEPT !.search = cut_search])
        ELSE MoveLoop(rest, f2, [s EXCEPT !.search = quiet_search])

\* alphabeta.rs 352-362, 373-384: the first search of the move returned r
AfterFirst(rest, f, s, r) ==
    LET following_score == AsI16(-r)
        again == IF FullWindowFirst(f)
                 THEN f.reduction > 0 /\ following_score > f.alpha
                 ELSE following_score > f.alpha
        child == NewFrame(-f.beta, -f.alpha, f.depth_left - 1,
                          make_move(f.pos, f.mv), -f.color, f.current_depth + 1)
        f1 == FirstScore(f, following_score)
    IN  IF again
        THEN CallChild(rest, Called2([f1 EXCEPT !.pc = "research"], child), s, child)
        ELSE AfterSearch(rest, f1, s, following_score)

\* alphabeta.rs 200-238: futility margin, move counters, then the loop
PrepareLoop(rest, f, s, has_generated_moves) ==
    LET futil_pruning == f.depth_left <= FUTILITY_DEPTH /\ ~f.incheck
        static_evaluation ==
            IF futil_pruning /\ ~f.static_evaluation.some
            THEN Some(eval_game_state(f.pos)) ELSE f.static_evaluation
        futil_margin ==
            IF futil_pruning
            THEN AsI16(static_evaluation.val * f.color + f.depth_left * FUTILITY_MARGIN)
            ELSE 0
        s1 == IF has_generated_moves THEN s
              ELSE [s EXCEPT !.move_list[f.current_depth + 1].counter = 0]
        counter == (IF f.has_pvmove THEN 1 ELSE 0)
                   + (IF f.has_ttmove /\ (~f.has_pvmove \/ f.tt_move # f.pv_table_move)
                      THEN 1 ELSE 0)
    IN  MoveLoop(rest,
                 [f EXCEPT !.has_generated_moves = has_generated_moves,
                           !.futil_pruning = futil_pruning,
                           !.static_evaluation = static_evaluation,
                           !.futil_margin = futil_margin,
                           !.hash_and_pv_move_counter = counter,
                           !.current_max_score = STANDARD_SCORE],
                 s1)

\* Internal iterative deepening that searches to the depth of its caller
IIDStage_same_depth(rest, f, s) ==
    IF /\ f.is_pv_node /\ ~f.incheck /\ ~f.is_likelystalemate
       /\ ~f.has_pvmove /\ ~f.has_ttmove /\ f.depth_left > 6
    THEN CallChild(rest, [f EXCEPT !.pc = "iid"], history_pop(s),
                   NewFrame(f.alpha, f.beta, f.depth_left, f.pos, f.color,
                            f.current_depth))
    ELSE PrepareLoop(rest, f, s, FALSE)

\* alphabeta.rs 171-188: internal iterative deepening, or on to the loop
IIDStage(rest, f, s) ==
    IF /\ f.is_pv_node /\ ~f.incheck /\ ~f.is_likelystalemate
       /\ ~f.has_pvmove /\ ~f.has_ttmove /\ f.depth_left > 6
    THEN CallChild(rest, [f EXCEPT !.pc = "iid"], history_pop(s),
                   NewFrame(f.alpha, f.beta, f.depth_left - 2, f.pos, f.color,
                            f.current_depth))
    ELSE PrepareLoop(rest, f, s, FALSE)

\* alphabeta.rs 189-198: the search of internal iterative deepening returned
AfterIID_unchecked(rest, f, s) ==
    LET s1 == history_push(s, f.pos)
        tt_move == s1.search.pv_table[f.current_depth + 1][1]
    IN  PrepareLoop(rest, [f EXCEPT !.tt_move = tt_move, !.has_ttmove = tt_move # 0],
                    s1, TRUE)

AfterIID(rest, f, s) ==
    LET s1 == history_push(s, f.pos)
        tt_move == s1.search.pv_table[f.current_depth + 1][1]
    IN  IF s1.search.stop THEN Return(rest, f, s1, STANDARD_SCORE, "iid_stop")
        ELSE PrepareLoop(rest, [f EXCEPT !.tt_move = tt_move, !.has_ttmove = tt_move # 0],
                         s1, TRUE)

\* alphabeta.rs 162-169: the null-move search returned r
AfterNullMove(rest, f, s, r) ==
    LET rat == AsI16(-r)
    IN  IF rat >= f.beta THEN Return(rest, f, history_pop(s), rat, "null_move")
        ELSE IIDStage(rest, f, s)

\* alphabeta.rs 39-169: from the entry of the invocation to its first call
\* or its return; stop_flag is su.stop, over what tc.time_over answers
\* The test of alphabeta.rs 48 with MAX_SEARCH_DEPTH itself as the limit
MaxDepthReached_at_max(current_depth) == current_depth >= MAX_SEARCH_DEPTH

\* alphabeta.rs 48: the maximum search depth is reached
MaxDepthReached(current_depth) == current_depth >= MAX_SEARCH_DEPTH - 1

\* The extension without the exemption of the root
Extended_at_root(depth_left, incheck, root, likelystalemate) ==
    IF incheck \/ (depth_left = 0 /\ likelystalemate)
    THEN depth_left + 1 ELSE depth_left

\* alphabeta.rs 62-64: depth_left after the check extension
Extended(depth_left, incheck, root, likelystalemate) ==
    IF (incheck /\ ~root) \/ (depth_left = 0 /\ likelystalemate)
    THEN depth_left + 1 ELSE depth_left

Entry(rest, f, s, stop_flag, over) ==
    LET counted == clear_pv(f.current_depth,
                            [s.search EXCEPT !.nodes_searched = @ + 1])
        checked == IF counted.nodes_searched % CHECKUP_NODES = 0
                   THEN checkup(counted, stop_flag, over) ELSE counted
        s1 == [s EXCEPT !.search = checked]
        root == f.current_depth = 0
        is_pv_node == AsI16(f.beta - f.alpha) > 1
        incheck == in_check(f.pos)
        likelystalemate == ~incheck /\ is_likelystalemate(f.pos)
        depth_left == Extended(f.depth_left, incheck, root, likelystalemate)
        hint == s1.search.principal_variation[f.current_depth + 1]
        has_pvmove == hint.some /\ hint.hash = HashOf(f.pos)
        hit == TTHas(s1.cache, HashOf(f.pos))
        ce == TTGet(s1.cache, HashOf(f.pos))
        usable == hit /\ ce.depth >= AsI8(depth_left) /\ AsI16(f.beta - f.alpha) = 1
        alpha == IF usable /\ ce.beta /\ ce.score > f.alpha THEN ce.score ELSE f.alpha
        beta == IF usable /\ ~ce.beta /\ ce.alpha /\ ce.score < f.beta
                THEN ce.score ELSE f.beta
        tt_cut == usable /\ ((~ce.alpha /\ ~ce.beta) \/ alpha >= beta)
        f0 == [f EXCEPT !.depth_left = depth_left, !.is_pv_node = is_pv_node,
                        !.incheck = incheck, !.is_likelystalemate = likelystalemate]
        f1 == [f0 EXCEPT !.has_pvmove = has_pvmove,
                        !.pv_table_move = IF has_pvmove THEN hint.mv ELSE 0,
                        !.alpha = IF usable /\ (ce.alpha \/ ce.beta) THEN alpha ELSE @,
                        !.beta = IF usable /\ (ce.alpha \/ ce.beta) THEN beta ELSE @,
                        !.has_ttmove = hit,
                        !.tt_move = IF hit THEN ce.mv ELSE 0,
                        !.static_evaluation = IF hit THEN ce.static_evaluation ELSE NoEval]
        s2 == history_push(s1, f.pos)
        prunable == ~is_pv_node /\ ~incheck /\ ~likelystalemate
        static_null == prunable /\ depth_left <= STATIC_NULL_MOVE_DEPTH
        se1 == IF static_null /\ ~f1.static_evaluation.some
               THEN Some(eval_game_state(f.pos)) ELSE f1.static_evaluation
        null_move == prunable /\ depth_left >= NULL_MOVE_PRUNING_DEPTH
                     /\ PhasePositive(f.pos)
        se2 == IF null_move /\ ~se1.some THEN Some(eval_game_state(f.pos)) ELSE se1
        f2 == [f1 EXCEPT !.static_evaluation = se2]
    IN  IF s1.search.stop THEN Return(rest, f, s1, STANDARD_SCORE, "stop")
        ELSE IF MaxDepthReached(f.current_depth)
        THEN Return(rest, f, s1, eval_game_state(f.pos) * f.color, "max_depth")
        ELSE IF ~root /\ check_for_draw(f.pos, s1.history)
        THEN Return(rest, f, s1, leaf_score("Draw", f.color, f.current_depth), "draw")
        ELSE IF depth_left <= 0
        THEN Return(rest, f0, s1, q_search(f.alpha, f.beta, f.pos, f.color), "q_search")
        ELSE IF tt_cut
        THEN Return(rest, f1,
                    [s1 EXCEPT !.search.pv_table[f.current_depth + 1][1] = ce.mv],
                    ce.score, "tt_cut")
        ELSE IF static_null
                /\ AsI16(se1.val * f.color - STATIC_NULL_MOVE_MARGIN * depth_left) >= f1.beta
        THEN Return(rest, [f1 EXCEPT !.static_evaluation = se1], history_pop(s2),
                    AsI16(se1.val * f.color - STATIC_NULL_MOVE_DEPTH * depth_left),
                    "static_null")
        ELSE IF null_move /\ se2.val * f.color >= f1.beta
        THEN CallChild(rest, [f2 EXCEPT !.pc = "null_move"], s2,
                       NewFrame(-f1.beta, -f1.beta + 1,
                                Max(depth_left - 4 - (depth_left \div 6), 0),
                                make_nullmove(f.pos), -f.color, f.current_depth + 1))
        ELSE IIDStage(rest, f2, s2)

(***************************************************************************)
(* SpecSearch: the orchestrator calls principal_variation_search at the    *)
(* root and may set the stop flag at any moment; the worker runs from one  *)
(* call of principal_variation_search to the next.                         *)
(***************************************************************************)
\* The game trees, root windows and root depths searched
Seeds == {1, 2}
RootWindows == {[alpha |-> -16000, beta |-> 16000], [alpha |-> 100, beta |-> 101]}
RootDepths == {3, MaxPly - 1}
Offsets == {4, 12, 19}
StartNodes == {0} \cup {NodesBefore + k : k \in Offsets}

Top == stack[Len(stack)]
Rest == SubSeq(stack, 1, Len(stack) - 1)

NoHint == [some |-> FALSE, hash |-> <<>>, mv |-> 0]

\* The state before the root call: a game tree, the window and depth of the
\* root call, the PV move handed down by the previous iteration (0: none),
\* the nodes counted so far, the number of values of the hash and the
\* density of checkmates
InitSearchFrom(plies, seeds, windows, depths, hints, starts, classes, mates) ==
    /\ \E seed \in seeds, w \in windows, d \in depths, hint \in hints,
          hc \in classes, mc \in mates, ply \in plies :
            game = [seed |-> seed, alpha |-> w.alpha, beta |-> w.beta,
                    depth_left |-> d, hint |-> hint, hash_classes |-> hc,
                    mate_classes |-> mc, current_depth |-> ply]
    /\ stop = FALSE
    /\ \E n \in starts :
        /\ su = [search |->
                    [stop |-> FALSE,
                     nodes_searched |-> n,
                     pv_table |-> [d \in RowsFrom(game.current_depth) |-> EmptyRow],
                     principal_variation |->
                        [d \in RowsFrom(game.current_depth) |->
                            IF d = game.current_depth + 1 /\ game.hint # 0
                            THEN [some |-> TRUE, hash |-> HashOf(<<>>), mv |-> game.hint]
                            ELSE NoHint],
                     killer_moves |-> [d \in RowsFrom(game.current_depth) |-> <<0, 0>>],
                     hh_score |-> [c \in Colors |-> [m \in MoveIds |-> 0]],
                     bf_score |-> [c \in Colors |-> [m \in MoveIds |-> 1]],
                     history_score |-> [c \in Colors |-> [m \in MoveIds |-> 0]]],
                 history |-> <<>>,
                 cache |-> {},
                 root_pliesplayed |-> 0,
                 move_list |-> [d \in RowsFrom(game.current_depth) |->
                                  [counter |-> 0, move_list |-> <<>>, graded_moves |-> <<>>]]]
        /\ obs = [start |-> n, flag_at |-> -1, latched_at |-> -1, late |-> FALSE]
    /\ stack = <<>>
    /\ ret = NoRet
    /\ spc = "ready"
    /\ InitMvIdle
    /\ InitCacheVars("off")
    /\ InitLocksIdle

\* The searches the orchestrator starts: the root call has current_depth 0
InitSearchOf(seeds, windows, depths, hints, starts, classes, mates) ==
    InitSearchFrom({0}, seeds, windows, depths, hints, starts, classes, mates)

InitSearch == InitSearchOf(Seeds, RootWindows, RootDepths, {0, 2}, StartNodes, {0}, {0})

\* What a step of the worker leaves: su, stack and ret of r
Becomes(r) ==
    /\ su' = r.su
    /\ stack' = r.stack
    /\ ret' = r.ret
    /\ UNCHANGED <<game, stop, spc, mvVars, cacheVars, lockVars>>

\* The orchestrator calls principal_variation_search for the root position.
CallRoot ==
    /\ spc = "ready"
    /\ spc' = "running"
    /\ stack' = <<NewFrame(game.alpha, game.beta, game.depth_left, <<>>, 1,
                            game.current_depth)>>
    /\ UNCHANGED <<game, stop, su, ret, obs, mvVars, cacheVars, lockVars>>

\* An invocation runs from its entry to its first call or to its return.
Enter ==
    /\ spc = "running" /\ stack # <<>> /\ Top.pc = "entry" /\ ~ret.some
    /\ \E over \in BOOLEAN :
          Becomes(Entry(Rest, [Top EXCEPT !.entered = su.history], su, stop, over))
    /\ obs' = IF su'.search.stop /\ ~su.search.stop
              THEN [obs EXCEPT !.latched_at = su'.search.nodes_searched] ELSE obs

\* The null-move search of the invocation on top returned.
NullMoveReturns ==
    /\ spc = "running" /\ stack # <<>> /\ Top.pc = "null_move" /\ ret.some
    /\ Becomes(AfterNullMove(Rest, Top, su, ret.val))
    /\ UNCHANGED obs

\* The search of internal iterative deepening returned.
IIDReturns ==
    /\ spc = "running" /\ stack # <<>> /\ Top.pc = "iid" /\ ret.some
    /\ Becomes(AfterIID(Rest, Top, su))
    /\ UNCHANGED obs

\* The first search of a move returned.
FirstSearchReturns ==
    /\ spc = "running" /\ stack # <<>> /\ Top.pc = "first" /\ ret.some
    /\ Becomes(AfterFirst(Rest, Top, su, ret.val))
    /\ obs' = IF su.search.stop /\ AsI16(-ret.val) > Top.current_max_score
                 /\ ~(Len(stack') > Len(stack) /\ stack'[Len(stack)].pc = "research")
              THEN [obs EXCEPT !.late = TRUE] ELSE obs

\* The second search of a move (full depth, full window) returned.
ReSearchReturns ==
    /\ spc = "running" /\ stack # <<>> /\ Top.pc = "research" /\ ret.some
    /\ Becomes(AfterSearch(Rest, Top, su, AsI16(-ret.val)))
    /\ obs' = IF su.search.stop /\ AsI16(-ret.val) > Top.current_max_score
              THEN [obs EXCEPT !.late = TRUE] ELSE obs

\* The root invocation returned to the orchestrator.
RootReturns ==
    /\ spc = "running" /\ stack = <<>> /\ ret.some
    /\ spc' = "done"
    /\ UNCHANGED <<game, stop, su, stack, ret, obs, mvVars, cacheVars, lockVars>>

\* The orchestrator sets the shared stop flag (time is up, or `stop` came).
SetStop ==
    /\ spc \in {"ready", "running"} /\ ~stop
    /\ stop' = TRUE
    /\ obs' = [obs EXCEPT !.flag_at = su.search.nodes_searched]
    /\ UNCHANGED <<game, su, stack, ret, spc, mvVars, cacheVars, lockVars>>

\* The steps of the recursion, and the condition under which one can be taken
Recursion == Enter \/ NullMoveReturns \/ IIDReturns \/ FirstSearchReturns \/ ReSearchReturns
RecursionEnabled ==
    /\ spc = "running" /\ stack # <<>>
    /\ \/ Top.pc = "entry" /\ ~ret.some
       \/ Top.pc \in {"null_move", "iid", "first", "research"} /\ ret.some

Worker == CallRoot \/ Recursion \/ RootReturns

NextSearch == Worker \/ SetStop

SpecSearch == InitSearch /\ [][NextSearch]_vars

\* The worker thread keeps running: weak fairness of its steps, that of the
\* recursion written out with RecursionEnabled for ENABLED <<Recursion>>_vars.
SpecStop ==
    /\ InitSearch /\ [][NextSearch]_vars
    /\ WF_vars(CallRoot) /\ WF_vars(RootReturns)
    /\ ([]<>(~RecursionEnabled) \/ []<><<Recursion>>_vars)

(***************************************************************************)
(* Claims on SpecSearch and SpecStop                                       *)
(***************************************************************************)
\* A step of the worker in which the invocation on top of the stack returns
Returns == stack # <<>> /\ Len(stack') < Len(stack)

C6_NoPvWriteAfterStop ==
    [][su'.search.stop =>
          \A d \in Rows : \A i \in DOMAIN su.search.pv_table[d] :
              su'.search.pv_table[d][i] # su.search.pv_table[d][i]
                  => su'.search.pv_table[d][i] = 0
      ]_vars

\* a child's score higher than the best so far reached the move loop of its
\* parent after the latch
C6_Witness == su.search.stop /\ obs.late

\* The first multiple of CHECKUP_NODES after n
NextCheckup(n) == (n \div CHECKUP_NODES + 1) * CHECKUP_NODES

\* C7: an invocation whose node count at entry is a multiple of 1024 latches
\* search.stop if the shared flag is set, and search.stop is latched at no
\* other moment; once latched it stays latched; the flag set at node count n
\* is latched before the node count passes the next multiple of 1024; and
\* after the flag is set the root call returns.
C7_StopProtocol ==
    /\ [][(stack # <<>> /\ Top.pc = "entry" /\ stack' # stack) =>
            /\ su'.search.nodes_searched = su.search.nodes_searched + 1
            /\ (su'.search.nodes_searched % CHECKUP_NODES = 0 /\ stop)
                    => su'.search.stop
            /\ (su'.search.stop /\ ~su.search.stop)
                    => su'.search.nodes_searched % CHECKUP_NODES = 0
          ]_vars
    /\ [][su.search.stop => su'.search.stop]_vars
    /\ [](stop /\ ~su.search.stop
            => su.search.nodes_searched < NextCheckup(obs.flag_at))
    /\ [](su.search.stop /\ obs.flag_at >= 0 /\ obs.flag_at < obs.latched_at
            => obs.latched_at = NextCheckup(obs.flag_at))
    /\ (stop ~> spc = "done")

\* the flag was set in the middle of the search, search.stop was latched at
\* the next checkup and the root call returned
C7_Witness ==
    /\ spc = "done" /\ stop /\ su.search.stop
    /\ obs.flag_at > obs.start
    /\ obs.latched_at = NextCheckup(obs.flag_at)

(***************************************************************************)
(* SpecCollide: the search of a game whose positions share hashes          *)
(***************************************************************************)
\* The number of values the hash takes
HashClasses == 7

InitCollide == InitSearchOf(Seeds, RootWindows, RootDepths, {0, 2}, {0}, {HashClasses}, {0})

SpecCollide == InitCollide /\ [][NextSearch]_vars

\* mv is a move the move generator produces for pos
Generated(mv, pos) == \E k \in 1..Len(generate_moves(pos)) : generate_moves(pos)[k] = mv

\* The position of the invocation that returned last
ReturnedPos ==
    IF Top.pc = "null_move" THEN make_nullmove(Top.pos)
    ELSE IF Top.pc = "iid" THEN Top.pos
    ELSE make_move(Top.pos, Top.mv)

\* The row of the PV table of the invocation that returned last
ReturnedRow ==
    su.search.pv_table[(IF Top.pc = "iid" THEN Top.current_depth ELSE Top.current_depth + 1) + 1]

\* C19 as stated: every move that make_move was applied to, the moves taken
\* from the PV table and from the cache included, is a move the move
\* generator produces for the position it was made in, and so is every move
\* a cache cutoff writes into the PV.
C19_MovesValidated ==
    /\ \A i \in 1..Len(stack) :
            stack[i].pc \in {"first", "research"} => Generated(stack[i].mv, stack[i].pos)
    /\ (ret.some /\ ret.via = "tt_cut" /\ stack # <<>>) =>
            Generated(ReturnedRow[1], ReturnedPos)

(***************************************************************************)
(* SpecMate: the search of game trees whose root is a forced mate.  The    *)
(* mate distance is computed on the game the search plays: a position off  *)
(* the root that check_for_draw calls a draw ends the line as a draw, a    *)
(* position without moves is a mate if in_check and a stalemate otherwise. *)
(***************************************************************************)
DrawnOffRoot(pos) == pos # <<>> /\ DrawnByRule(pos)

RECURSIVE LostWithin(_, _)
RECURSIVE WonWithin(_, _)
\* The side to move in pos is mated in at most n plies whatever it plays
LostWithin(pos, n) ==
    /\ ~DrawnOffRoot(pos)
    /\ IF generate_moves(pos) = <<>> THEN in_check(pos)
       ELSE /\ n >= 2
            /\ \A k \in 1..Len(generate_moves(pos)) :
                    WonWithin(make_move(pos, generate_moves(pos)[k]), n - 1)

\* The side to move in pos has a move after which the opponent is mated in at
\* most n - 1 plies
WonWithin(pos, n) ==
    /\ ~DrawnOffRoot(pos)
    /\ n >= 1
    /\ \E k \in 1..Len(generate_moves(pos)) :
            LostWithin(make_move(pos, generate_moves(pos)[k]), n - 1)

\* Mated in exactly n plies, and mating in exactly n plies, under best play
MatedIn(pos, n) == LostWithin(pos, n) /\ (n = 0 \/ ~LostWithin(pos, n - 1))
MatesIn(pos, n) == WonWithin(pos, n) /\ ~WonWithin(pos, n - 1)

\* The plies within which the model's games can end in mate
MateDistances == 1 .. MaxCheckPly

\* One position in MateClasses off the root is a checkmate
MateClasses == 5
MateSeeds == 0 .. 96
MateDepths == {3, MaxPly - 1}

InitMate == InitSearchOf(MateSeeds, RootWindows, MateDepths, {0}, {0}, {0}, {MateClasses})

SpecMate == InitMate /\ [][NextSearch]_vars

\* The root call, made with the window that holds every score, returned to
\* the orchestrator and the search was not stopped
Completed ==
    /\ spc = "done" /\ ret.some /\ ~su.search.stop
    /\ game.alpha < -MATE_SCORE /\ game.beta > MATE_SCORE

\* C20: when the side to move at the root is mated in n plies under best play
\* and the depth of the search is at least n, the search returns
\* -(MATE_SCORE - n); when it mates in n plies, the search returns
\* MATE_SCORE - n.
C20_MateDistance ==
    Completed =>
        \A n \in MateDistances :
            n <= game.depth_left =>
                /\ MatedIn(<<>>, n) => ret.val = -(MATE_SCORE - n)
                /\ MatesIn(<<>>, n) => ret.val = MATE_SCORE - n

\* The invocation whose return statement was executed in this step
NodeReturned == ret'.some /\ ret' # ret

\* White is to move in pos
WhiteToMove(pos) == Len(pos) % 2 = 0

\* C21: an invocation that is not stopped and reaches the end of the move
\* loop with no move tried returns -(MATE_SCORE - current_depth) if the side
\* to move is in check and 0 if it is not, with color = 1 iff White is to
\* move; its row of the PV table is empty and the cache is as it was.  An
\* invocation that tried a move does not return through leaf_score.
C21_NoMoveTried ==
    [][NodeReturned =>
        LET f == ret'.node
        IN  /\ (ret'.via \in {"no_moves", "end", "panic"} /\ f.moves_tried = 0
                    /\ ~su'.search.stop) =>
                /\ ret'.via = "no_moves"
                /\ f.color = (IF WhiteToMove(f.pos) THEN 1 ELSE -1)
                /\ ret'.val = (IF in_check(f.pos) THEN -(MATE_SCORE - f.current_depth) ELSE 0)
                /\ su'.search.pv_table[f.current_depth + 1] = EmptyRow
                /\ su'.cache = su.cache
            /\ (ret'.via \in {"no_moves", "end", "panic"} /\ f.moves_tried > 0) =>
                ret'.via # "no_moves"
      ]_vars

\* Black, to move at ply 3, is in check without a move: the invocation
\* returned -(MATE_SCORE - 3)
C21_Witness ==
    /\ ret.some /\ ret.via = "no_moves" /\ ~su.search.stop
    /\ in_check(ret.node.pos) /\ ret.node.current_depth = 3
    /\ ret.val = -(MATE_SCORE - 3)

\* C23 as stated: an invocation that returns by static null-move pruning is
\* at a non-PV node, not in check and not likely stalemate, with
\* depth_left <= 5; it returns static_eval * color - 120 * depth_left, which
\* is at least beta.
C23_StaticNullMove ==
    (ret.some /\ ret.via = "static_null") =>
        LET f == ret.node
            quantity == f.static_evaluation.val * f.color
                            - STATIC_NULL_MOVE_MARGIN * f.depth_left
        IN  /\ ~f.is_pv_node /\ ~f.incheck /\ ~f.is_likelystalemate
            /\ f.depth_left <= STATIC_NULL_MOVE_DEPTH
            /\ quantity >= f.beta
            /\ ret.val = quantity

\* C24 as stated: the cache changes at the end of an invocation only if the
\* search is not stopped, and the entry written carries the score returned,
\* the beta flag iff score >= beta and the alpha flag iff score <= the alpha
\* the invocation was entered with.
C24_CacheBounds ==
    [][(NodeReturned /\ su'.cache # su.cache) =>
        LET f == ret'.node
            e == TTGet(su'.cache, HashOf(f.pos))
        IN  /\ ret'.via = "end" /\ ~su'.search.stop
            /\ TTHas(su'.cache, HashOf(f.pos))
            /\ e.score = ret'.val
            /\ e.beta <=> (ret'.val >= f.beta)
            /\ e.alpha <=> (ret'.val <= f.args.alpha)
      ]_vars

(***************************************************************************)
(* SpecDraw: the search of games whose root is itself a draw by material   *)
(* or by the half-move clock, with hashes that identify the position and   *)
(* with hashes that positions share (so that positions repeat).            *)
(***************************************************************************)
DrawSeeds == {5, 43}

InitDraw == InitSearchOf(DrawSeeds, RootWindows, RootDepths, {0, 2}, StartNodes, {0, HashClasses}, {0})

SpecDraw == InitDraw /\ [][NextSearch]_vars

\* The hash occurs in the history from its last reset record on
OccursSinceReset(history, hash) ==
    \E i \in 1..Len(history) :
        /\ history[i].hash = hash
        /\ \A j \in (i + 1)..Len(history) : ~history[j].reset

\* No pawns, rooks or queens and at most one minor piece per side
FewMen(m) ==
    /\ \A side \in 1..2 : m.pawns[side] + m.rooks[side] + m.queens[side] = 0
    /\ \A side \in 1..2 : m.knights[side] + m.bishops[side] <= 1

\* The draws of the claim
ForcedDraw(pos, history) ==
    \/ FewMen(Material(pos))
    \/ half_moves(pos) >= 100
    \/ OccursSinceReset(history, HashOf(pos))

\* The invocation on top of the stack starts in this step
Starts == stack # <<>> /\ Top.pc = "entry" /\ stack' # stack

\* The invocation returns 0 and leaves history, move lists and cache alone
ReturnsDraw ==
    /\ ret'.some /\ ret'.val = 0 /\ ret'.node.pos = Top.pos
    /\ Len(stack') = Len(stack) - 1
    /\ su'.history = su.history
    /\ su'.move_list = su.move_list
    /\ su'.cache = su.cache

\* C22 as stated: every invocation off the root on a forced draw returns 0
\* and touches neither history, move lists nor cache; at the root the draw
\* test is not applied.
C22_AsStated ==
    [][Starts =>
        /\ (Top.current_depth # 0 /\ ForcedDraw(Top.pos, su.history)) => ReturnsDraw
        /\ Top.current_depth = 0 => ret'.via # "draw"
      ]_vars

\* C22: every invocation off the root on a forced draw that is not stopped
\* (and is below the maximal search depth) returns 0 and touches neither
\* history, move lists nor cache; a stopped one returns STANDARD_SCORE; at
\* the root the draw test is not applied.
C22_ForcedDraw ==
    [][Starts =>
        /\ (Top.current_depth # 0 /\ ForcedDraw(Top.pos, su.history)) =>
                IF su'.search.stop
                THEN ret'.some /\ ret'.val = STANDARD_SCORE /\ ret'.via = "stop"
                ELSE Top.current_depth < MAX_SEARCH_DEPTH - 1 =>
                        ReturnsDraw /\ ret'.via = "draw"
        /\ (ret'.via = "draw" /\ ret'.some) =>
                Top.current_depth # 0 /\ ForcedDraw(Top.pos, su.history)
      ]_vars

\* An invocation off the root returned 0 for a knight against a bishop
C22_Witness ==
    /\ ret.some /\ ret.via = "draw" /\ ret.val = 0 /\ ret.node.current_depth > 0
    /\ Material(ret.node.pos).knights = <<1, 0>>
    /\ Material(ret.node.pos).bishops = <<0, 1>>

(***************************************************************************)
(* The order of the moves in one invocation (alphabeta.rs 239-282,         *)
(* 717-748), read from the record of the passes of its move loop.          *)
(***************************************************************************)
\* The invocations in progress and the one that returned last
Visits == {stack[i] : i \in 1..Len(stack)} \cup (IF ret.some THEN {ret.node} ELSE {})

\* PV-table move, then TT move, then the list
FromRank(from) == IF from = "pv" THEN 1 ELSE IF from = "tt" THEN 2 ELSE 3

\* The passes of f that took their move from `from`
PassesFrom(f, from) == {i \in 1..Len(f.tried) : f.tried[i].from = from}

\* The invocation that returned last left its move loop by the loop's
\* condition, with no cutoff
LoopEnded ==
    /\ ret.some /\ ret.via \in {"end", "no_moves", "panic"}
    /\ ret.node.alpha < ret.node.beta

\* The moves are taken in the order PV-table move, TT move, list; there is at
\* most one PV-table move and one TT move, and they differ; a list move is
\* skipped iff it is the PV-table or the TT move
TakenInOrder(f) ==
    LET t == f.tried
    IN  /\ \A i, j \in 1..Len(t) : i < j => FromRank(t[i].from) <= FromRank(t[j].from)
        /\ Cardinality(PassesFrom(f, "pv")) <= 1
        /\ Cardinality(PassesFrom(f, "tt")) <= 1
        /\ \A i \in PassesFrom(f, "pv") : f.has_pvmove /\ t[i].mv = f.pv_table_move
        /\ \A i \in PassesFrom(f, "tt") :
              f.has_ttmove /\ t[i].mv = f.tt_move
                  /\ (f.has_pvmove => f.tt_move # f.pv_table_move)
        /\ \A i \in 1..Len(t) :
              t[i].fate = "repeated" <=>
                  /\ t[i].from = "list"
                  /\ \/ f.has_pvmove /\ t[i].mv = f.pv_table_move
                     \/ f.has_ttmove /\ t[i].mv = f.tt_move

\* No move is searched twice
SearchedOnce(f) ==
    \A i, j \in 1..Len(f.tried) :
        (i < j /\ f.tried[i].fate = "searched" /\ f.tried[j].fate = "searched") =>
            f.tried[i].mv # f.tried[j].mv

\* No move is taken from the list twice
ListedOnce(f) ==
    \A i, j \in PassesFrom(f, "list") : i < j => f.tried[i].mv # f.tried[j].mv

\* Every move of the position was taken from the list
ListedAll(f) ==
    \A k \in 1..Len(generate_moves(f.pos)) :
        \E i \in PassesFrom(f, "list") : f.tried[i].mv = generate_moves(f.pos)[k]

\* C25 as stated: in every invocation the moves are taken in the order
\* PV-table move, TT move if distinct, list; no move is searched twice, no
\* move is taken from the list twice, and an invocation whose loop ended
\* without a cutoff took every move of the position from the list.
C25_MoveOrder ==
    /\ \A f \in Visits : TakenInOrder(f) /\ SearchedOnce(f) /\ ListedOnce(f)
    /\ LoopEnded => ListedAll(ret.node)

(***************************************************************************)
(* SpecSort: get_next_gm (alphabeta.rs 717-748) called for k = 0..n-1 on   *)
(* a freshly graded list of n moves, as make_and_evaluate_moves leaves it: *)
(* slot i holds move-list index i and its grade.                           *)
(***************************************************************************)
\* Moves in the longest list
SortMoves == 4

\* The grades of the moves: quiet moves without history, two quiet moves of
\* equal history ratio, a killer move and a winning capture
SortGrades == {Grade(0, 0, 1), Grade(0, 1, 2), Grade(0, 2, 4), Grade(5000, 0, 1),
               Grade(10000, 0, 1)}

InitSort ==
    /\ \E n \in 1..SortMoves : \E grades \in [1..n -> SortGrades] :
        LET graded == [i \in 1..n |-> [mv_index |-> i, score |-> grades[i]]]
        IN  /\ su = [move_list |->
                        <<[counter |-> n, move_list |-> [i \in 1..n |-> i],
                           graded_moves |-> graded]>>]
            /\ obs = [fresh |-> graded, returned |-> <<>>]
    /\ game = [seed |-> 0, hash_classes |-> 0, mate_classes |-> 0]
    /\ stop = FALSE
    /\ stack = <<>>
    /\ ret = NoRet
    /\ spc = "sorting"
    /\ InitMvIdle
    /\ InitCacheVars("off")
    /\ InitLocksIdle

\* The next call of get_next_gm of the move loop (alphabeta.rs 259-264)
NextGm ==
    /\ spc = "sorting"
    /\ Len(obs.returned) < su.move_list[1].counter
    /\ LET next == get_next_gm(su.move_list[1], Len(obs.returned) + 1)
       IN  /\ su' = [su EXCEPT !.move_list[1].graded_moves = next.graded_moves]
           /\ obs' = [obs EXCEPT !.returned = Append(@, next.result)]
    /\ UNCHANGED <<game, stop, stack, ret, spc, mvVars, cacheVars, lockVars>>

NextSort == NextGm

SpecSort == InitSort /\ [][NextSort]_vars

\* The grades of two moves of the fresh list are equal
SameGrade(a, b) == ~GradeGreater(a.score, b.score) /\ ~GradeGreater(b.score, a.score)

\* The calls made so far returned move-list indices, each at most once, in
\* non-increasing order of grade; after n calls every index was returned
SortedOnce ==
    LET r == obs.returned
        n == Len(obs.fresh)
    IN  /\ \A i \in 1..Len(r) : r[i] \in 1..n
        /\ \A i, j \in 1..Len(r) : i < j =>
              /\ r[i] # r[j]
              /\ ~GradeGreater(obs.fresh[r[j]].score, obs.fresh[r[i]].score)
        /\ Len(r) = n => \A m \in 1..n : \E i \in 1..n : r[i] = m

\* Among moves of equal grade the smaller move-list index is returned first
TiesByMoveIndex ==
    \A i, j \in 1..Len(obs.returned) :
        (i < j /\ SameGrade(obs.fresh[obs.returned[i]], obs.fresh[obs.returned[j]])) =>
            obs.returned[i] < obs.returned[j]

\* C26 as stated: every move-list index once, in non-increasing order of
\* grade, ties in the order of the move-list indices.
C26_AsStated == SortedOnce /\ TiesByMoveIndex

\* The first slot of the highest grade among the slots from k on
FirstBest(graded, k) ==
    CHOOSE p \in k..Len(graded) :
        /\ \A q \in k..Len(graded) : ~GradeGreater(graded[q].score, graded[p].score)
        /\ \A q \in k..(p - 1) : GradeGreater(graded[p].score, graded[q].score)

\* C26, amended: the calls get_next_gm(k), k = 0..n-1, on a freshly graded
\* list return every move-list index exactly once, in non-increasing order
\* of grade; among the moves of the highest grade, call k returns the one
\* whose entry lies first in the slots k..n-1 of the graded array as the
\* calls before it left it.
C26_SelectionOrder ==
    [][(spc = "sorting" /\ obs' # obs) =>
        /\ SortedOnce'
        /\ LET k == Len(obs.returned) + 1
               graded == su.move_list[1].graded_moves
           IN  obs'.returned =
                   Append(obs.returned, graded[FirstBest(graded, k)].mv_index)
      ]_vars

\* Two quiet moves of equal grade before a capture: the capture, then the
\* second quiet move, then the first
C26_Witness ==
    /\ spc = "sorting"
    /\ Len(obs.fresh) = 3
    /\ SameGrade(obs.fresh[1], obs.fresh[2])
    /\ GradeGreater(obs.fresh[3].score, obs.fresh[1].score)
    /\ obs.returned = <<3, 2, 1>>

(***************************************************************************)
(* SpecPrune: SpecSearch on games in which moves are pruned by futility    *)
(* and by their negative history (alphabeta.rs 300-321).                   *)
(***************************************************************************)
PruneSeeds == {2, 96}

InitPrune == InitSearchOf(PruneSeeds, RootWindows, RootDepths, {0, 2}, StartNodes, {0}, {0})

SpecPrune == InitPrune /\ [][NextSearch]_vars

\* The passes of f whose move was searched, and those whose move was pruned
SearchedPasses(f) == {i \in 1..Len(f.tried) : f.tried[i].fate = "searched"}
PrunedPasses(f) == {i \in 1..Len(f.tried) : f.tried[i].fate \in {"futile", "history"}}

\* C27: a move is pruned by futility or by its negative history only after
\* a move of the same invocation was searched with a score > MATED_IN_MAX.
\* An invocation that leaves its move loop with a move tried and no stop
\* latched has searched a move, returns a score other than STANDARD_SCORE,
\* and has a move in its row of the PV table when it reaches make_cache,
\* which stores its entry; make_cache never panics.
C27_PruneAfterSearch ==
    /\ \A f \in Visits : \A i \in PrunedPasses(f) :
          /\ f.tried[i].current_max_score > MATED_IN_MAX
          /\ \E j \in SearchedPasses(f) :
                j < i /\ f.tried[j].score.some /\ f.tried[j].score.val > MATED_IN_MAX
    /\ ret.via # "panic"
    /\ (/\ ret.some /\ ret.via \in {"end", "no_moves"}
        /\ ret.node.moves_tried > 0 /\ ~su.search.stop) =>
            /\ ret.via = "end"
            /\ SearchedPasses(ret.node) # {}
            /\ ret.val # STANDARD_SCORE
            /\ ret.val = ret.node.current_max_score
            /\ su.search.pv_table[ret.node.current_depth + 1][1] # 0
            /\ TTHas(su.cache, HashOf(ret.node.pos))

\* An invocation returned a score from its move loop after it pruned a
\* move by futility
PrunedByFutility ==
    /\ ret.some /\ ret.via = "end" /\ ~su.search.stop
    /\ \E i \in PrunedPasses(ret.node) : ret.node.tried[i].fate = "futile"

\* An invocation returned a score from its move loop after it pruned a
\* move by its negative history
C27_Witness ==
    /\ ret.some /\ ret.via = "end" /\ ~su.search.stop
    /\ \E i \in PrunedPasses(ret.node) : ret.node.tried[i].fate = "history"

(***************************************************************************)
(* The searches of a move (alphabeta.rs 323-384), read from the record of  *)
(* the passes of the move loop: the locals when the move was taken, the    *)
(* arguments of the first search and of the second, and the first score.   *)
(***************************************************************************)
\* The child's arguments for the window [-beta, -alpha] at depth_left - 1
FullSearch(e) == [alpha |-> -e.beta, beta |-> -e.alpha, depth_left |-> e.depth_left - 1]

\* C28: a searched move of a node with depth_left <= 2, or without PV-table
\* move, or at index 0, is searched with [-beta, -alpha] at depth
\* depth_left - 1 - reduction, and again with [-beta, -alpha] at depth
\* depth_left - 1 iff reduction > 0 and the score > alpha; any other searched
\* move is searched with [-alpha - 1, -alpha] at depth depth_left - 1, with no
\* reduction, and again with [-beta, -alpha] at depth_left - 1 iff the
\* score > alpha.
C28_SearchWindows ==
    \A f \in Visits : \A i \in SearchedPasses(f) :
        LET e == f.tried[i]
            again == e.call2 # <<>>
        IN  /\ IF e.depth_left <= 2 \/ ~f.has_pvmove \/ e.index = 0
               THEN /\ e.call1 = [FullSearch(e) EXCEPT !.depth_left = @ - e.reduction]
                    /\ e.first.some => (again <=> (e.reduction > 0 /\ e.first.val > e.alpha))
               ELSE /\ e.call1 = [alpha |-> -e.alpha - 1, beta |-> -e.alpha,
                                  depth_left |-> e.depth_left - 1]
                    /\ e.reduction = 0
                    /\ e.first.some => (again <=> e.first.val > e.alpha)
            /\ again => e.first.some /\ e.call2 = FullSearch(e)

\* A move after the PV-table move was searched with the zero window and,
\* having scored above alpha, is searched again with the full window
C28_Witness ==
    \E f \in Visits : \E i \in SearchedPasses(f) :
        /\ f.has_pvmove /\ f.tried[i].index > 0 /\ f.tried[i].depth_left > 2
        /\ f.tried[i].call1.beta - f.tried[i].call1.alpha = 1
        /\ f.tried[i].call2 = FullSearch(f.tried[i])

PastDrawTest ==
    {stack[i] : i \in {j \in 1..Len(stack) : stack[j].pc # "entry"}}
        \cup (IF ret.some /\ ret.via \notin {"stop", "max_depth", "draw"}
              THEN {ret.node} ELSE {})

\* The condition of the extension as the claim states it, on the arguments
ExtensionDue(f) ==
    \/ in_check(f.pos) /\ f.current_depth # 0
    \/ f.args.depth_left = 0 /\ ~in_check(f.pos) /\ is_likelystalemate(f.pos)

\* C30: an invocation that comes past the tests of stop, depth and draw has
\* depth_left one above its argument iff the side to move is in check off
\* the root, or the argument is 0 and the position is likely stalemate and
\* not in check; otherwise depth_left is the argument.  It returns through
\* q_search iff depth_left is then <= 0, and never does so off the root with
\* the side to move in check.
C30_CheckExtension ==
    /\ \A f \in PastDrawTest :
          /\ f.args.depth_left >= 0
          /\ f.depth_left = f.args.depth_left + (IF ExtensionDue(f) THEN 1 ELSE 0)
          /\ f.incheck = in_check(f.pos)
    /\ \A i \in 1..Len(stack) : stack[i].pc # "entry" => stack[i].depth_left > 0
    /\ (ret.some /\ ret.via \notin {"stop", "max_depth", "draw"}) =>
          /\ ret.via = "q_search" <=> ret.node.depth_left <= 0
          /\ ret.via = "q_search" =>
                ~(in_check(ret.node.pos) /\ ret.node.current_depth # 0)

\* An invocation off the root, called with depth_left = 0 and the side to
\* move in check, ran its move loop with depth_left = 1
C30_Witness ==
    /\ ret.some /\ ret.via \in {"end", "no_moves"}
    /\ ret.node.args.depth_left = 0 /\ ret.node.depth_left = 1
    /\ ret.node.incheck /\ ret.node.current_depth # 0

(***************************************************************************)
(* SpecDeep: the search from an invocation near the maximum search depth,  *)
(* as a search of depth MAX_SEARCH_DEPTH reaches it: the orchestrator's    *)
(* call stands for the call that a move some plies above the limit makes.  *)
(***************************************************************************)
\* Plies between the first invocation and the last row of the tables
DeepPlies == {1, 2, 3}

\* Games of SpecSearch and a game whose first position is a draw by rule
DeepSeeds == {1, 2, 5}

InitDeep ==
    InitSearchFrom({MAX_SEARCH_DEPTH - k : k \in DeepPlies}, DeepSeeds, RootWindows,
                   RootDepths, {0, 2}, StartNodes, {0}, {0})

SpecDeep == InitDeep /\ [][NextSearch]_vars

\* What an invocation that returns for its depth returns, and what it leaves:
\* the static evaluation, nothing called, cache and history as they were
ReturnsEvaluation ==
    /\ ret'.some /\ ret'.via = "max_depth"
    /\ ret'.val = eval_game_state(Top.pos) * Top.color
    /\ stack' = Rest
    /\ su'.cache = su.cache /\ su'.history = su.history

\* C31 as stated: an invocation returns the static evaluation for its depth
\* only when current_depth is MAX_SEARCH_DEPTH.
C31_AsStated ==
    (ret.some /\ ret.via = "max_depth") => ret.node.current_depth >= MAX_SEARCH_DEPTH

\* C31, amended: an invocation that is not stopped returns
\* eval_game_state(position).final_eval * color at once, with no draw test,
\* no cache access and no call, when current_depth >= MAX_SEARCH_DEPTH - 1
\* (99), and at no smaller current_depth for its depth.
C31_MaxDepth ==
    [][Starts =>
        /\ (~su'.search.stop /\ Top.current_depth >= MAX_SEARCH_DEPTH - 1)
              => ReturnsEvaluation
        /\ (ret'.some /\ ret'.via = "max_depth") =>
              /\ ~su'.search.stop
              /\ Top.current_depth >= MAX_SEARCH_DEPTH - 1
      ]_vars

\* An invocation at current_depth 99 on a position that is a draw by rule
\* returned its static evaluation, which is not 0
C31_Witness ==
    /\ ret.some /\ ret.via = "max_depth"
    /\ ret.node.current_depth = MAX_SEARCH_DEPTH - 1
    /\ DrawnByRule(ret.node.pos)
    /\ ret.val # 0

(***************************************************************************)
(* The rows of the PV table (alphabeta.rs 40, 386-389, 631-650).           *)
(***************************************************************************)
\* The row is a run of moves followed only by empty slots
Contiguous(row) == \A i, j \in DOMAIN row : (i < j /\ row[i] = 0) => row[j] = 0

\* The invocation that received a score in this step, as the step leaves it
Receiver == IF Len(stack') >= Len(stack) THEN stack'[Len(stack)] ELSE ret'.node

\* A child returned to the move loop and its score became the best score
NewBest ==
    /\ stack # <<>> /\ Top.pc \in {"first", "research"} /\ stack' # stack
    /\ Receiver.pc # "research" \/ Top.pc = "research"
    /\ Receiver.current_max_score # Top.current_max_score

\* C32: every row of pv_table is a run of moves followed only by empty
\* slots; the step that makes mv the best move of ply d without the stop
\* latched leaves row d as mv followed by row d + 1; and the step that enters
\* an invocation leaves its row empty, but for the move of a cache cutoff.
C32_PvRows ==
    [][/\ \A d \in DOMAIN su'.search.pv_table : Contiguous(su'.search.pv_table[d])
       /\ NewBest =>
            LET d == Top.current_depth + 1
                mv == Receiver.tried[Len(Top.tried)].mv
            IN  /\ ~su'.search.stop
                /\ su'.search.pv_table[d] =
                      [i \in Rows |-> IF i = 1 THEN mv
                                      ELSE su'.search.pv_table[d + 1][i - 1]]
       /\ Starts =>
            su'.search.pv_table[Top.current_depth + 1] =
                (IF ret'.some /\ ret'.via = "tt_cut"
                 THEN [EmptyRow EXCEPT ![1] = TTGet(su.cache, HashOf(Top.pos)).mv]
                 ELSE EmptyRow)
      ]_vars

\* A move has become the best of its ply with a line shorter than the line
\* of the best move before it: the row holds the new line and nothing else
C32_Witness ==
    /\ ret.some /\ ret.via = "end" /\ ~su.search.stop
    /\ \E i, j \in SearchedPasses(ret.node) :
          LET t == ret.node.tried
          IN  /\ i < j
              /\ t[i].score.val > t[i].current_max_score
              /\ t[j].score.val > t[j].current_max_score
              /\ t[j].line < t[i].line
              /\ \A k \in SearchedPasses(ret.node) :
                    k > j => t[k].score.val <= t[k].current_max_score
              /\ RowLen(su.search.pv_table[ret.node.current_depth + 1]) = t[j].line
              /\ su.search.pv_table[ret.node.current_depth + 1][1] = t[j].mv

(***************************************************************************)
(* C33: the move-ordering tables after a beta cutoff by a quiet move.      *)
(***************************************************************************)
\* The step ends the move loop of the waiting invocation by a cutoff
CutsOff ==
    /\ stack # <<>> /\ Top.pc \in {"first", "research"} /\ stack' # stack
    /\ Len(stack') < Len(stack) /\ ret'.some
    /\ Len(ret'.node.tried) = Len(Top.tried)
    /\ ret'.node.tried[Len(Top.tried)].score.some
    /\ ret'.node.alpha >= ret'.node.beta

\* The number of searches of quiet move m the invocation has finished
\* without a cutoff
QuietSearches(f, m) ==
    Cardinality({i \in SearchedPasses(f) :
                    /\ i < Len(f.tried)
                    /\ f.tried[i].mv = m /\ ~is_capture(f.pos, m)})

\* The killers of a ply after a cutoff by quiet move mv, as the claim has them
KillersAfter(killers, mv) ==
    IF mv \in {killers[1], killers[2]} THEN killers
    ELSE <<mv, IF killers[1] # 0 THEN killers[1] ELSE killers[2]>>

DistinctKillers(search) ==
    \A d \in DOMAIN search.killer_moves :
        search.killer_moves[d][1] # 0 =>
            search.killer_moves[d][1] # search.killer_moves[d][2]

\* The tables of the side to move after the cutoff
TablesAfterCutoff ==
    LET M == Top.mv
        sq == Top.depth_left * Top.depth_left
        side == SideToMove(Top.pos)
        d == Top.current_depth + 1
        old == su.search
        new == su'.search
    IN  /\ new.hh_score[side] = [old.hh_score[side] EXCEPT ![M] = @ + sq]
        /\ \A m \in DOMAIN old.history_score[side] :
              new.history_score[side][m] =
                  old.history_score[side][m]
                  + (IF m = M THEN sq ELSE 0) - QuietSearches(Top, m) * sq
        /\ new.killer_moves[d] = KillersAfter(old.killer_moves[d], M)
        /\ \A e \in DOMAIN old.killer_moves :
              e # d => new.killer_moves[e] = old.killer_moves[e]

\* C33: on a beta cutoff at ply d by a non-capture M searched with
\* depth_left D, hh_score and history_score of M grow by D*D, history_score
\* of every quiet searched earlier at the node without a cutoff shrinks by
\* D*D, M becomes the first killer of the ply before the old first killer
\* unless it is a killer already, and the two killers of a ply are never the
\* same move.
C33_CutoffTables ==
    [][/\ (CutsOff /\ ~Top.isc) => TablesAfterCutoff
       /\ DistinctKillers(su'.search)]_vars

\* A quiet move has cut off after another quiet of the node was searched: it
\* is the first killer of its ply before the killer it displaced, and the
\* history score of the earlier quiet is negative
C33_Witness ==
    /\ ret.some /\ ret.via = "end" /\ ret.node.alpha >= ret.node.beta
    /\ LET f == ret.node
           M == f.mv
           side == SideToMove(f.pos)
           killers == su.search.killer_moves[f.current_depth + 1]
       IN  /\ f.tried # <<>> /\ f.tried[Len(f.tried)].score.some
           /\ f.tried[Len(f.tried)].mv = M /\ ~f.isc
           /\ killers[1] = M /\ killers[2] \notin {0, M}
           /\ su.search.hh_score[side][M] >= f.depth_left * f.depth_left
           /\ \E m \in DOMAIN su.search.history_score[side] :
                 /\ m # M /\ QuietSearches(f, m) = 1
                 /\ su.search.history_score[side][m] < 0

(***************************************************************************)
(* C34: the history stack across an invocation.  The frame keeps in        *)
(* `entered` the stack of hashes the invocation was entered with.          *)
(***************************************************************************)
\* C34: every invocation of principal_variation_search returns with the
\* history stack exactly as it was at its entry, on every return path: the
\* static-null return, the null-move cutoff, the path through internal
\* iterative deepening, a stop latched during a recursive call, and the
\* normal end.
C34_HistoryRestored == ret.some => su.history = ret.node.entered

(***************************************************************************)
(* C35, C36: the buckets and the fill counter of the cache.                *)
(***************************************************************************)
\* C35: after any sequence of insert and lookup calls no bucket contains two
\* non-invalid slots with the same (upper_hash, lower_hash).
C35_NoDuplicates ==
    \A a \in DOMAIN cache.cache :
        \A i, j \in 1..3 :
            (/\ i < j
             /\ ~is_invalid(cache.cache[a][i])
             /\ ~is_invalid(cache.cache[a][j])) =>
                <<cache.cache[a][i].upper_hash, cache.cache[a][i].lower_hash>>
                    # <<cache.cache[a][j].upper_hash, cache.cache[a][j].lower_hash>>

\* The slots of the cache that are not invalid
TakenSlots(c) ==
    {ak \in (DOMAIN c.cache) \X (1..3) : ~is_invalid(c.cache[ak[1]][ak[2]])}

\* C36: after any sequence of insert, lookup and clear calls made one at a
\* time on a cache with entries > 0, full is the number of slots that are not
\* invalid, so full <= entries and get_status() is within 0..1000.
C36_FullCounts ==
    cache.entries > 0 =>
        /\ cache.full = Cardinality(TakenSlots(cache))
        /\ cache.full <= cache.entries
        /\ get_status(cache) \in 0..1000

(***************************************************************************)
(* C38: the depths of the recursion.                                       *)
(***************************************************************************)
\* The invocation of frame k was called by the invocation of frame k - 1
\* one ply deeper, or by its internal iterative deepening at the same ply
\* with depth_left smaller by 2
CalledDeeper(k) ==
    LET caller == stack[k - 1]
        callee == stack[k]
    IN  \/ callee.current_depth = caller.current_depth + 1
        \/ /\ caller.pc = "iid"
           /\ callee.current_depth = caller.current_depth
           /\ callee.args.depth_left = caller.depth_left - 2

\* The depths of the invocations in progress for a root call with depth_left D
DepthsBounded ==
    LET D == game.depth_left
    IN  \A k \in 1..Len(stack) :
            /\ stack[k].args.depth_left >= 0
            /\ stack[k].depth_left <= Max(D, 1)
            /\ stack[k].depth_left \in {stack[k].args.depth_left,
                                        stack[k].args.depth_left + 1}
            /\ k > 1 => CalledDeeper(k)
            /\ stack[k].current_depth <= MAX_SEARCH_DEPTH - 1
            /\ AsI8(stack[k].depth_left) = stack[k].depth_left

OrderingTables(search) ==
    <<search.killer_moves, search.hh_score, search.history_score, search.bf_score>>

\* C39: once search.stop is latched the rest of the search changes neither
\* the transposition cache nor the move-ordering tables: no killer and no
\* hh_score, history_score or bf_score counter changes on the sentinel score
\* a stopped child returned.
C39_NoWritesAfterStop ==
    [][su.search.stop =>
            /\ su'.cache = su.cache
            /\ OrderingTables(su'.search) = OrderingTables(su.search)]_vars

\* The cache alone
C39_CacheKept == [][su.search.stop => su'.cache = su.cache]_vars

(***************************************************************************)
(* SpecKing: king_eval (king_evaluation.rs 52-92) and the evaluation of    *)
(* its result (3-22).  A bitboard is the set of its squares, square        *)
(* 8 * rank + file.  The bitboards module is not part of the sources: the  *)
(* shield of a king is taken to be the squares one and two ranks in front  *)
(* of it on its file and the files next to it, the front span of a square  *)
(* the squares in front of it on its file.                                 *)
(***************************************************************************)
BoardSquares == 0..63
FileOf(sq) == sq % 8
RankOf(sq) == sq \div 8

\* u64::trailing_zeros of a bitboard
trailing_zeros(bb) ==
    IF bb = {} THEN 64 ELSE CHOOSE x \in bb : \A y \in bb : x <= y

\* bitboards::FILES[i]
FILES(i) == {sq \in BoardSquares : FileOf(sq) = i}

\* bitboards::west_one and bitboards::east_one
west_one(bb) == {sq - 1 : sq \in {x \in bb : FileOf(x) # 0}}
east_one(bb) == {sq + 1 : sq \in {x \in bb : FileOf(x) # 7}}

\* bitboards::w_front_span and bitboards::b_front_span
w_front_span(bb) ==
    {sq \in BoardSquares : \E x \in bb : FileOf(x) = FileOf(sq) /\ RankOf(sq) > RankOf(x)}
b_front_span(bb) ==
    {sq \in BoardSquares : \E x \in bb : FileOf(x) = FileOf(sq) /\ RankOf(sq) < RankOf(x)}

\* bitboards::SHIELDING_PAWNS_WHITE[king_index] and SHIELDING_PAWNS_BLACK
SHIELDING_PAWNS_WHITE(king_index) ==
    {sq \in BoardSquares :
        /\ RankOf(sq) - RankOf(king_index) \in {1, 2}
        /\ FileOf(sq) - FileOf(king_index) \in {-1, 0, 1}}
SHIELDING_PAWNS_BLACK(king_index) ==
    {sq \in BoardSquares :
        /\ RankOf(king_index) - RankOf(sq) \in {1, 2}
        /\ FileOf(sq) - FileOf(king_index) \in {-1, 0, 1}}

\* king_evaluation.rs 3-4
SHIELDING_PAWN_MISSING_MG == <<0, -30, -60, -90>>
SHIELDING_PAWN_MISSING_ON_OPEN_FILE == <<0, -60, -120, -180>>

\* The shield without the square just counted
BlockOut_square(shield, idx) == shield \ {idx}

\* king_evaluation.rs 78, 85: the whole file of the square is blocked out
BlockOut(shield, idx) == shield \ FILES(idx % 8)

RECURSIVE ShieldLoop(_, _, _, _, _)
\* king_evaluation.rs 75-86: the loop over the files of the shield
ShieldLoop(shield, my_pawns, enemy_pawns, king_front_span, counts) ==
    IF shield = {} THEN counts
    ELSE
        LET idx == trailing_zeros(shield)
            file == FILES(idx % 8)
            missing == my_pawns \cap shield \cap file = {}
            open == enemy_pawns \cap file \cap king_front_span = {}
        IN  ShieldLoop(BlockOut(shield, idx), my_pawns, enemy_pawns, king_front_span,
                       [shields_missing |->
                            counts.shields_missing + (IF missing THEN 1 ELSE 0),
                        shields_on_open_missing |->
                            counts.shields_on_open_missing
                                + (IF missing /\ open THEN 1 ELSE 0)])

\* king_eval (king_evaluation.rs 52-92)
king_eval(king, my_pawns, enemy_pawns, is_white, full_moves) ==
    LET king_index == trailing_zeros(king)
        shield == IF is_white THEN SHIELDING_PAWNS_WHITE(king_index)
                  ELSE SHIELDING_PAWNS_BLACK(king_index)
        span == IF is_white THEN w_front_span(king) ELSE b_front_span(king)
        king_front_span == span \cup west_one(span) \cup east_one(span)
        none == [shields_missing |-> 0, shields_on_open_missing |-> 0]
        counts == IF full_moves >= 1
                  THEN ShieldLoop(shield, my_pawns, enemy_pawns, king_front_span, none)
                  ELSE none
    IN  [shielding_pawns_missing |-> counts.shields_missing,
         shielding_pawns_missing_on_open_file |-> counts.shields_on_open_missing]

\* KingEvaluation::eval_mg (king_evaluation.rs 12-18): an index outside a
\* table panics
eval_mg(ke) ==
    IF /\ ke.shielding_pawns_missing \in 0..3
       /\ ke.shielding_pawns_missing_on_open_file \in 0..3
    THEN [panic |-> FALSE,
          val |-> SHIELDING_PAWN_MISSING_MG[ke.shielding_pawns_missing + 1]
                  + SHIELDING_PAWN_MISSING_ON_OPEN_FILE[
                        ke.shielding_pawns_missing_on_open_file + 1]]
    ELSE [panic |-> TRUE, val |-> 0]

\* KingEvaluation::eval_eg (king_evaluation.rs 19-21)
eval_eg(ke) == 0

\* The kings, the pawns of the king's side and of the other side, and the
\* full-move counters king_eval is called with
KingSquares == {0, 4, 6, 15, 27, 39, 56, 60, 63}
MyPawnSquares == {12, 13, 21, 52, 53}
EnemyPawnSquares == {19, 36, 43, 45}
FullMoves == {0, 1, 2}

InitKing ==
    /\ \E k \in KingSquares, white \in BOOLEAN, full_moves \in FullMoves :
       \E mine \in SUBSET MyPawnSquares, theirs \in SUBSET EnemyPawnSquares :
            game = [king |-> {k}, my_pawns |-> mine, enemy_pawns |-> theirs,
                    is_white |-> white, full_moves |-> full_moves,
                    seed |-> 0, hash_classes |-> 0, mate_classes |-> 0]
    /\ obs = [evaluated |-> FALSE]
    /\ spc = "king"
    /\ stop = FALSE
    /\ su = [off |-> TRUE]
    /\ stack = <<>>
    /\ ret = NoRet
    /\ InitMvIdle
    /\ InitCacheVars("off")
    /\ InitLocksIdle

\* The evaluation calls king_eval and takes the two phases of its result
KingEval ==
    /\ spc = "king"
    /\ spc' = "evaluated"
    /\ LET ke == king_eval(game.king, game.my_pawns, game.enemy_pawns,
                           game.is_white, game.full_moves)
       IN  obs' = [evaluated |-> TRUE, ke |-> ke, mg |-> eval_mg(ke), eg |-> eval_eg(ke)]
    /\ UNCHANGED <<game, stop, su, stack, ret, mvVars, cacheVars, lockVars>>

NextKing == KingEval

SpecKing == InitKing /\ [][NextKing]_vars

\* The files of the shield of the king evaluated
ShieldFiles ==
    LET king_index == trailing_zeros(game.king)
        shield == IF game.is_white THEN SHIELDING_PAWNS_WHITE(king_index)
                  ELSE SHIELDING_PAWNS_BLACK(king_index)
    IN  {FileOf(sq) : sq \in shield}

\* C40: for every king square, pawn configuration and colour king_eval gives
\* 0 <= shielding_pawns_missing_on_open_file <= shielding_pawns_missing <= 3,
\* each file of the shield counted at most once, so that the two tables of 4
\* penalties are indexed within range; with the full-move counter 0 both
\* counts and the king evaluation are 0; the end-game king evaluation is 0.
C40_KingEval ==
    (spc = "evaluated") =>
        /\ 0 <= obs.ke.shielding_pawns_missing_on_open_file
        /\ obs.ke.shielding_pawns_missing_on_open_file <= obs.ke.shielding_pawns_missing
        /\ obs.ke.shielding_pawns_missing <= Cardinality(ShieldFiles)
        /\ obs.ke.shielding_pawns_missing <= 3
        /\ ~obs.mg.panic
        /\ game.full_moves = 0 =>
              /\ obs.ke.shielding_pawns_missing = 0
              /\ obs.ke.shielding_pawns_missing_on_open_file = 0
              /\ obs.mg.val = 0
        /\ obs.eg = 0

\* A king in the middle of the first rank after the first move, with no
\* pawn of its own in its shield and an enemy pawn in front of one of the
\* three files: three shielding pawns are missing, two on open files
C40_Witness ==
    /\ spc = "evaluated"
    /\ game.full_moves >= 1
    /\ Cardinality(ShieldFiles) = 3
    /\ Cardinality(game.my_pawns) >= 2
    /\ obs.ke.shielding_pawns_missing = 3
    /\ obs.ke.shielding_pawns_missing_on_open_file = 2
    /\ obs.mg.val = -210

(***************************************************************************)
(* SpecLocks: threads calling insert, lookup, age_entry and clear on the   *)
(* shared cache (cache.rs 55-148).  A call holds the RwLock of a stripe    *)
(* over several steps, and CacheEntry::write stores its fields in three    *)
(* groups, so that another thread can run between any two of them.         *)
(***************************************************************************)
NumThreads == 2
MaxThreadCalls == 2
ThreadIds == 1 .. NumThreads

\* The stripes that hold the buckets in use, and a stripe's buckets
StripesOf(c) == {a[1] : a \in DOMAIN c.cache}
BucketsOf(c, stripe) == {a \in DOMAIN c.cache : a[1] = stripe}
FirstStripe(c) == CHOOSE x \in StripesOf(c) : \A y \in StripesOf(c) : x <= y
LaterStripes(c, stripe) == {y \in StripesOf(c) : y > stripe}
NextStripe(c, stripe) ==
    CHOOSE x \in LaterStripes(c, stripe) : \A y \in LaterStripes(c, stripe) : x <= y

\* RwLock (std::sync): a lock nobody holds; lock.write() and lock.read() by
\* thread t give ok and the lock as t then holds it; dropping t's guard
Unlocked == [writer |-> 0, readers |-> {}]
lock_read(l, t) == [ok |-> l.writer = 0, lock |-> [l EXCEPT !.readers = @ \cup {t}]]
lock_write(l, t) ==
    [ok |-> l.writer = 0 /\ l.readers = {}, lock |-> [l EXCEPT !.writer = t]]
unlock(l, t) ==
    [writer |-> IF l.writer = t THEN 0 ELSE l.writer, readers |-> l.readers \ {t}]

\* The read guard of Cache::get kept by the caller
get_unlock_kept(l, t) == l

\* Cache::get returns the clone of the bucket: its read guard is dropped
\* (cache.rs 80-82)
get_unlock(l, t) == unlock(l, t)

\* the lock Cache::insert takes (cache.rs 96-98)
insert_lock_read(l, t) == lock_read(l, t)
insert_lock(l, t) == lock_write(l, t)

\* The arguments of the calls the threads make
LockInsertArgs == {1, 2, 3}
LockInsert(k) ==
    [p |-> [alpha |-> 0, beta |-> 1, depth_left |-> IF k = 2 THEN 2 ELSE 1,
            game_state |-> TTGameState(IF k = 3 THEN HashB ELSE HashA)],
     mv |-> IF k = 2 THEN MoveH3G4 ELSE MoveH3H4,
     score |-> CASE k = 1 -> 5 [] k = 2 -> -7 [] OTHER -> 0,
     original_alpha |-> IF k = 2 THEN 0 ELSE -1,
     static_evaluation |-> IF k = 2 THEN Some(3) ELSE NoEval]
LockRoots == {0, 1}
LockLookup(hash) == [alpha |-> 0, beta |-> 1, depth_left |-> 3,
                     game_state |-> TTGameState(hash)]
LockCalls ==
    {[op |-> "insert", hash |-> LockInsert(k).p.game_state.hash, arg |-> k, root |-> 0] :
        k \in LockInsertArgs}
    \cup {[op |-> "lookup", hash |-> h, arg |-> 0, root |-> r] :
            h \in {HashA, HashD}, r \in LockRoots}
    \cup {[op |-> "age_entry", hash |-> HashA, arg |-> 0, root |-> 1],
          [op |-> "clear", hash |-> HashZero, arg |-> 0, root |-> 0]}
NoLockCall == [op |-> "none", hash |-> HashZero, arg |-> 0, root |-> 0]

IdleThread ==
    [pc |-> "idle", call |-> NoLockCall, slot |-> 0, rule |-> 0, res |-> FALSE,
     new |-> invalid, copy |-> None(DefaultBucket), tmp |-> 0, stripe |-> 0, calls |-> 0]

InitLocks ==
    /\ cache = with_size(MbSize, DEFAULT_LOCKS)
    /\ rwlock = [x \in StripesOf(cache) |-> Unlocked]
    /\ threads = [t \in ThreadIds |-> IdleThread]
    /\ root_plies = 0 /\ profile = "locks" /\ inserts = 0 /\ lookups = 0 /\ last = NoCall
    /\ InitMvIdle
    /\ InitSearchIdle

LockFrame == UNCHANGED <<root_plies, profile, inserts, lookups, last, mvVars, searchVars>>

\* thread t returns from its call
Returned(th) == [th EXCEPT !.pc = "idle", !.calls = @ + 1]

\* The entry of slot `slot` after group g of the stores of CacheEntry::write
\* (cache.rs 317-331): 1 the hash halves, 2 depth to pv_node, 3 mv and
\* static_evaluation
StoreGroup(e, new, g) ==
    CASE g = 1 -> [e EXCEPT !.upper_hash = new.upper_hash, !.lower_hash = new.lower_hash]
      [] g = 2 -> [e EXCEPT !.depth = new.depth, !.plies_played = new.plies_played,
                            !.score = new.score, !.alpha = new.alpha, !.beta = new.beta,
                            !.pv_node = new.pv_node]
      [] OTHER -> [e EXCEPT !.mv = new.mv, !.static_evaluation = new.static_evaluation]

\* A call of Cache::insert (cache.rs 85-98) up to the lock of the stripe
BeginInsert(t) ==
    /\ threads[t].pc = "idle" /\ threads[t].calls < MaxThreadCalls
    /\ cache.entries # 0
    /\ \E call \in LockCalls :
        /\ call.op = "insert"
        /\ threads' = [threads EXCEPT ![t] =
                [@ EXCEPT !.pc = "ins_lock", !.call = call,
                          !.stripe = UpperIndex(cache, call.hash),
                          !.copy = None(DefaultBucket)]]
    /\ UNCHANGED <<cache, rwlock>>
    /\ LockFrame

\* Cache::insert takes the lock of the stripe (cache.rs 99); replace_entry
\* chooses the slot
InsertLock(t) ==
    /\ threads[t].pc = "ins_lock"
    /\ LET call == threads[t].call
           a == LockInsert(call.arg)
           stripe == threads[t].stripe
           lk == insert_lock(rwlock[stripe], t)
           r == replace_entry(get(cache, call.hash), a.p, a.mv, a.score,
                              a.original_alpha, call.root, a.static_evaluation)
       IN  /\ lk.ok
           /\ rwlock' = [rwlock EXCEPT ![stripe] = lk.lock]
           /\ threads' = [threads EXCEPT ![t] =
                [@ EXCEPT !.pc = IF r.written # 0 THEN "ins_w1" ELSE "ins_swap",
                          !.slot = r.slot, !.rule = r.rule, !.res = r.res,
                          !.new = write_entry(a.p, a.mv, a.score, a.original_alpha,
                                              call.root, a.static_evaluation)]]
    /\ UNCHANGED cache
    /\ LockFrame

\* CacheEntry::write (cache.rs 317-331) on the slot chosen, one group of
\* stores at a time
InsertWrite(t) ==
    /\ threads[t].pc \in {"ins_w1", "ins_w2", "ins_w3"}
    /\ LET th == threads[t]
           g == CASE th.pc = "ins_w1" -> 1 [] th.pc = "ins_w2" -> 2 [] OTHER -> 3
       IN  /\ cache' = [cache EXCEPT !.cache[Addr(cache, th.call.hash)][th.slot] =
                            StoreGroup(@, th.new, g)]
           /\ threads' = [threads EXCEPT ![t].pc =
                            CASE g = 1 -> "ins_w2" [] g = 2 -> "ins_w3" [] OTHER -> "ins_swap"]
    /\ UNCHANGED rwlock
    /\ LockFrame

\* the swaps of replace_entry (cache.rs 205, 213-214) that bring the slot of
\* rule 1 to the front, then cache.rs 108-111
InsertSwap(t) ==
    /\ threads[t].pc = "ins_swap"
    /\ LET th == threads[t]
           a == Addr(cache, th.call.hash)
           b == cache.cache[a]
       IN  /\ cache' = [cache EXCEPT !.cache[a] =
                            IF th.rule = 1 /\ th.slot = 2 THEN swap(b, 1, 2)
                            ELSE IF th.rule = 1 /\ th.slot = 3
                                 THEN swap(swap(b, 1, 3), 2, 3)
                            ELSE b]
           /\ threads' = [threads EXCEPT ![t].pc =
                            IF th.res THEN "ins_full" ELSE "ins_unlock"]
    /\ UNCHANGED rwlock
    /\ LockFrame

\* self.full.load(Ordering::Relaxed) (cache.rs 110)
InsertFullLoad(t) ==
    /\ threads[t].pc = "ins_full"
    /\ threads' = [threads EXCEPT ![t].pc = "ins_store", ![t].tmp = cache.full]
    /\ UNCHANGED <<cache, rwlock>>
    /\ LockFrame

\* self.full.store(.. + 1, Ordering::Relaxed) (cache.rs 109-110)
InsertFullStore(t) ==
    /\ threads[t].pc = "ins_store"
    /\ cache' = [cache EXCEPT !.full = threads[t].tmp + 1]
    /\ threads' = [threads EXCEPT ![t].pc = "ins_unlock"]
    /\ UNCHANGED rwlock
    /\ LockFrame

\* insert returns: the guard `write` is dropped
InsertUnlock(t) ==
    /\ threads[t].pc = "ins_unlock"
    /\ rwlock' = [rwlock EXCEPT ![threads[t].stripe] = unlock(@, t)]
    /\ threads' = [threads EXCEPT ![t] = Returned(@)]
    /\ UNCHANGED cache
    /\ LockFrame

\* A call of Cache::lookup (cache.rs 117-127) up to its call of Cache::get
BeginLookup(t) ==
    /\ threads[t].pc = "idle" /\ threads[t].calls < MaxThreadCalls
    /\ cache.entries # 0
    /\ \E call \in LockCalls :
        /\ call.op = "lookup"
        /\ threads' = [threads EXCEPT ![t] =
                [@ EXCEPT !.pc = "get_lock", !.call = call,
                          !.stripe = UpperIndex(cache, call.hash),
                          !.copy = None(DefaultBucket)]]
    /\ UNCHANGED <<cache, rwlock>>
    /\ LockFrame

\* Cache::get takes the read lock of the stripe (cache.rs 74-79)
LookupLock(t) ==
    /\ threads[t].pc = "get_lock"
    /\ LET lk == lock_read(rwlock[threads[t].stripe], t)
       IN  /\ lk.ok
           /\ rwlock' = [rwlock EXCEPT ![threads[t].stripe] = lk.lock]
    /\ threads' = [threads EXCEPT ![t].pc = "get_clone"]
    /\ UNCHANGED cache
    /\ LockFrame

\* Cache::get clones the bucket and drops the read guard (cache.rs 80-82);
\* lookup probes the copy and goes on to age_entry if the entry it found does
\* not stop the search and is of another root ply (cache.rs 123-146)
LookupClone(t) ==
    /\ threads[t].pc = "get_clone"
    /\ LET th == threads[t]
           copy == get(cache, th.call.hash)
           found == probe(copy, th.call.hash)
           ages == /\ found.some
                   /\ ~StopRule(found.val, LockLookup(th.call.hash))
                   /\ found.val.plies_played # AsU16(th.call.root)
       IN  threads' = [threads EXCEPT ![t] =
                IF ages THEN [@ EXCEPT !.pc = "age_lock", !.copy = Some(copy)]
                ELSE Returned([@ EXCEPT !.copy = Some(copy)])]
    /\ rwlock' = [rwlock EXCEPT ![threads[t].stripe] = get_unlock(@, t)]
    /\ UNCHANGED cache
    /\ LockFrame

\* A call of Cache::age_entry from outside lookup
BeginAge(t) ==
    /\ threads[t].pc = "idle" /\ threads[t].calls < MaxThreadCalls
    /\ \E call \in LockCalls :
        /\ call.op = "age_entry"
        /\ threads' = [threads EXCEPT ![t] =
                [@ EXCEPT !.pc = "age_lock", !.call = call,
                          !.stripe = UpperIndex(cache, call.hash),
                          !.copy = None(DefaultBucket)]]
    /\ UNCHANGED <<cache, rwlock>>
    /\ LockFrame

\* Cache::age_entry takes the write lock of the stripe (cache.rs 64-67)
AgeLock(t) ==
    /\ threads[t].pc = "age_lock"
    /\ LET lk == lock_write(rwlock[threads[t].stripe], t)
       IN  /\ lk.ok
           /\ rwlock' = [rwlock EXCEPT ![threads[t].stripe] = lk.lock]
    /\ threads' = [threads EXCEPT ![t].pc = "age_set"]
    /\ UNCHANGED cache
    /\ LockFrame

\* CacheBucket::age_entry under the lock, then the guard is dropped
\* (cache.rs 68-71)
AgeSet(t) ==
    /\ threads[t].pc = "age_set"
    /\ cache' = age_entry(cache, threads[t].call.hash, AsU16(threads[t].call.root))
    /\ rwlock' = [rwlock EXCEPT ![threads[t].stripe] = unlock(@, t)]
    /\ threads' = [threads EXCEPT ![t] = Returned(@)]
    /\ LockFrame

\* Cache::clear (cache.rs 55-61) starts its loop over the stripes
BeginClear(t) ==
    /\ threads[t].pc = "idle" /\ threads[t].calls < MaxThreadCalls
    /\ \E call \in LockCalls :
        /\ call.op = "clear"
        /\ threads' = [threads EXCEPT ![t] =
                [@ EXCEPT !.pc = IF StripesOf(cache) = {} THEN "clr_full" ELSE "clr_lock",
                          !.call = call,
                          !.stripe = IF StripesOf(cache) = {} THEN 0
                                     ELSE FirstStripe(cache),
                          !.copy = None(DefaultBucket)]]
    /\ UNCHANGED <<cache, rwlock>>
    /\ LockFrame

\* bucket.write() (cache.rs 57)
ClearLock(t) ==
    /\ threads[t].pc = "clr_lock"
    /\ LET lk == lock_write(rwlock[threads[t].stripe], t)
       IN  /\ lk.ok
           /\ rwlock' = [rwlock EXCEPT ![threads[t].stripe] = lk.lock]
    /\ threads' = [threads EXCEPT ![t].pc = "clr_reset"]
    /\ UNCHANGED cache
    /\ LockFrame

\* the stripe gets default buckets and the guard is dropped (cache.rs 58-59)
ClearReset(t) ==
    /\ threads[t].pc = "clr_reset"
    /\ LET stripe == threads[t].stripe
       IN  /\ cache' = [cache EXCEPT !.cache =
                            [a \in DOMAIN @ |-> IF a[1] = stripe THEN DefaultBucket ELSE @[a]]]
           /\ rwlock' = [rwlock EXCEPT ![stripe] = unlock(@, t)]
           /\ threads' = [threads EXCEPT ![t] =
                            IF LaterStripes(cache, stripe) = {}
                            THEN [@ EXCEPT !.pc = "clr_full"]
                            ELSE [@ EXCEPT !.pc = "clr_lock",
                                           !.stripe = NextStripe(cache, stripe)]]
    /\ LockFrame

\* self.full.store(0, Ordering::Relaxed) (cache.rs 60)
ClearFull(t) ==
    /\ threads[t].pc = "clr_full"
    /\ cache' = [cache EXCEPT !.full = 0]
    /\ threads' = [threads EXCEPT ![t] = Returned(@)]
    /\ UNCHANGED rwlock
    /\ LockFrame

NextLocks ==
    \E t \in ThreadIds :
        \/ BeginInsert(t) \/ InsertLock(t) \/ InsertWrite(t) \/ InsertSwap(t)
        \/ InsertFullLoad(t) \/ InsertFullStore(t) \/ InsertUnlock(t)
        \/ BeginLookup(t) \/ LookupLock(t) \/ LookupClone(t)
        \/ BeginAge(t) \/ AgeLock(t) \/ AgeSet(t)
        \/ BeginClear(t) \/ ClearLock(t) \/ ClearReset(t) \/ ClearFull(t)

SpecLocks == InitLocks /\ [][NextLocks]_vars

(***************************************************************************)
(* Claims on SpecLocks                                                     *)
(***************************************************************************)
\* An entry all of whose fields come from one insert, re-aged or not, or
\* the entry of a slot never written
WholeEntry(e) ==
    \/ e = invalid
    \/ \E k \in LockInsertArgs, root \in LockRoots, age \in LockRoots :
          LET a == LockInsert(k)
          IN  e = [write_entry(a.p, a.mv, a.score, a.original_alpha, root,
                               a.static_evaluation) EXCEPT !.plies_played = age]

\* C8: every entry of a bucket copy that Cache::get returned is whole, and a
\* step changes a bucket only if the thread that takes it holds the write
\* lock of the bucket's stripe and nobody holds its read lock.
C8_NoTornEntries ==
    /\ [](\A t \in ThreadIds :
            threads[t].copy.some =>
                \A i \in 1..3 : WholeEntry(threads[t].copy.val[i]))
    /\ [][\A a \in DOMAIN cache.cache :
            cache'.cache[a] # cache.cache[a] =>
                \E t \in ThreadIds :
                    /\ rwlock[a[1]] = [writer |-> t, readers |-> {}]
                    /\ threads'[t] # threads[t]
         ]_vars

\* a thread got its copy, with the entry of a second insert for the same
\* hash in it, and another thread is in the middle of a write to that bucket
C8_Witness ==
    \E t, u \in ThreadIds :
        /\ t # u
        /\ threads[t].copy.some
        /\ threads[t].copy.val[1].score = LockInsert(2).score
        /\ threads[u].pc = "ins_w2"
        /\ Addr(cache, threads[u].call.hash) = Addr(cache, threads[t].call.hash)

(***************************************************************************)
(* C37: the stripe locks.  SpecLocksFair has the threads of SpecLocks make  *)
(* their last call on a cache that holds an entry of HashA, with a         *)
(* scheduler that runs every thread which is inside a call and can take a  *)
(* step.                                                                   *)
(***************************************************************************)
\* The steps of thread t inside a call
Run(t) ==
    \/ InsertLock(t) \/ InsertWrite(t) \/ InsertSwap(t)
    \/ InsertFullLoad(t) \/ InsertFullStore(t) \/ InsertUnlock(t)
    \/ LookupLock(t) \/ LookupClone(t)
    \/ AgeLock(t) \/ AgeSet(t)
    \/ ClearLock(t) \/ ClearReset(t) \/ ClearFull(t)

InitLocksFair ==
    /\ \E d \in FillDepths, b \in FillBetas :
          cache = FillInsert(with_size(MbSize, DEFAULT_LOCKS), HashA, d, b)
    /\ rwlock = [x \in StripesOf(cache) |-> Unlocked]
    /\ threads = [t \in ThreadIds |-> [IdleThread EXCEPT !.calls = MaxThreadCalls - 1]]
    /\ root_plies = 0 /\ profile = "locks" /\ inserts = 0 /\ lookups = 0 /\ last = NoCall
    /\ InitMvIdle
    /\ InitSearchIdle

SpecLocksFair ==
    InitLocksFair /\ [][NextLocks]_vars /\ \A t \in ThreadIds : WF_vars(Run(t))

\* The stripes whose lock thread t holds
HeldBy(t) == {x \in DOMAIN rwlock : rwlock[x].writer = t \/ t \in rwlock[x].readers}

\* Thread t is at a lock() or read() call
AtLock(t) == threads[t].pc \in {"ins_lock", "get_lock", "age_lock", "clr_lock"}

\* Thread t is inside a call and its next step can be taken
CanRun(t) ==
    /\ threads[t].pc # "idle"
    /\ AtLock(t) =>
          IF threads[t].pc = "get_lock"
          THEN lock_read(rwlock[threads[t].stripe], t).ok
          ELSE lock_write(rwlock[threads[t].stripe], t).ok

\* C37: no cache operation holds more than one stripe lock at a time, and a
\* thread that asks for a lock holds none (lookup has released its read lock
\* before age_entry asks for the write lock of the stripe); so whenever
\* threads are inside calls of lookup, insert, age_entry and clear one of
\* them can take a step, and every call that was begun returns.
C37_LocksComplete ==
    /\ [](\A t \in ThreadIds :
            /\ Cardinality(HeldBy(t)) <= 1
            /\ (AtLock(t) \/ threads[t].pc = "idle") => HeldBy(t) = {})
    /\ []((\E t \in ThreadIds : threads[t].pc # "idle") =>
            \E t \in ThreadIds : CanRun(t))
    /\ \A t \in ThreadIds : (threads[t].pc # "idle") ~> (threads[t].pc = "idle")

\* A lookup has dropped its read lock and waits in age_entry for the write
\* lock of the stripe, which an insert of another thread holds
C37_Witness ==
    \E t, u \in ThreadIds :
        /\ t # u
        /\ threads[t].pc = "age_lock" /\ threads[t].call.op = "lookup"
        /\ threads[u].call.op = "insert"
        /\ rwlock[threads[t].stripe].writer = u
        /\ HeldBy(t) = {}
        /\ ~CanRun(t)

====
